---- MODULE Spec2Model ----
(***************************************************************************)
(* Parent/child hierarchy validation: the similarity scorer and candidate  *)
(* ranker of utils/similarity_utils.py and the two ParentChildValidator    *)
(* variants (validator_backup.py, validator.py).                           *)
(*                                                                         *)
(* Spec           calls on a constructed validator and direct calls of the *)
(*                scorer and ranker, over tables of one vector dimension   *)
(* SpecMalformed  the same calls over tables with a malformed vector       *)
(* SpecConstruct  constructions of a validator over a data file and an     *)
(*                embeddings cache that change between runs                *)
(* SpecReport     the report rows and summaries built from the results     *)
(*                                                                         *)
(* Numbers.  An embedding is an integer vector.  A similarity score is the *)
(* IEEE 754 binary64 number the code computes: every operation on floats   *)
(* (square root, quotient, product, sum, difference) is the exact result   *)
(* rounded to the nearest float, ties to even, and the comparisons of the  *)
(* code (>=, sort order, equality of scores) are decided on those floats.  *)
(* A threshold is a decimal literal of two places, written in hundredths   *)
(* (0.6 is 60), and denotes the float nearest to it.                       *)
(***************************************************************************)
EXTENDS Integers, Sequences, FiniteSets, TLC

VARIABLES
    prog,          \* the module the caller exercises
    data,          \* self.data: the loaded records (Python dicts)
    embeddings,    \* self.embeddings: [root |-> vectors, parent |-> vectors]
    call,          \* the last operation invoked, with its arguments
    ret,           \* the list that operation returned
    retf,          \* the float calculate_similarity returned
    raised,        \* the exception that left it, "none" when it returned
    prev,          \* the operation before the last, when it was the same
                   \* invocation as the last: [call, ret, raised]
    rankerCalls,   \* find_top_matches invocations made by the last validation
    argsAfter,     \* the caller's candidate lists after find_top_matches returned
    disk,          \* the files: the embeddings path, the data file, the cache
    providerCalls, \* EmbeddingGenerator calls made by the last construction
    report,        \* the rows the last report preparation built
    summary        \* the figures the last summary step produced

vars == <<prog, data, embeddings, call, ret, retf, raised, prev, rankerCalls,
          argsAfter, disk, providerCalls, report, summary>>

\* what validation and ranking never touch: the files and the reports
env == <<disk, providerCalls, report, summary>>

----------------------------------------------------------------------------
(* Bounds of the model *)

MaxRecords == 4     \* records in a dataset
MaxCands == 3       \* candidates in a direct find_top_matches call; top_n
                    \* ranges over -MaxCands..MaxCands

(* Program constants *)

SIMILARITY_THRESHOLD == 65     \* config.py: 0.65
DEFAULT_TOP_N == 3             \* find_top_matches(top_n: int = 3)
DEFAULT_THRESHOLD == 60        \* find_top_matches(threshold: float = 0.6)
DEFAULT_SIMILARITY_THRESHOLD == 60
                               \* validate_relationships(similarity_threshold: float = 0.6)

----------------------------------------------------------------------------
(* Python values *)

None == <<>>              \* a missing embedding (None)
NoneVal == "None"         \* dict.get of an absent key

Get(d, k) == IF k \in DOMAIN d THEN d[k] ELSE NoneVal

\* Python truthiness of a dict.get result that is None or a string
Truthy(x) == x # NoneVal /\ x # ""

Min(a, b) == IF a <= b THEN a ELSE b
Max(a, b) == IF a >= b THEN a ELSE b

----------------------------------------------------------------------------
(* Floats: the binary64 arithmetic of Python and numpy *)

Abs(x) == IF x < 0 THEN 0 - x ELSE x

\* A natural number of any size is the sequence of its digits to the base
\* 2^15, the lowest first and the highest other than zero; zero is <<>>.
Limb == 32768

RECURSIVE NatOf(_)
NatOf(n) == IF n = 0 THEN <<>> ELSE <<n % Limb>> \o NatOf(n \div Limb)

\* the integer a natural number below 2^31 is
RECURSIVE IntOf(_)
IntOf(x) == IF x = <<>> THEN 0 ELSE x[1] + Limb * IntOf(Tail(x))

RECURSIVE Trim(_)
Trim(x) ==
    IF x = <<>> \/ x[Len(x)] # 0 THEN x ELSE Trim(SubSeq(x, 1, Len(x) - 1))

LimbAt(x, k) == IF k <= Len(x) THEN x[k] ELSE 0

\* -1, 0 or 1 as x is below, equal to or above y
RECURSIVE NatCmpFrom(_, _, _)
NatCmpFrom(x, y, k) ==
    IF k = 0 THEN 0
    ELSE IF x[k] < y[k] THEN 0 - 1
    ELSE IF x[k] > y[k] THEN 1
    ELSE NatCmpFrom(x, y, k - 1)

NatCmp(x, y) ==
    IF Len(x) < Len(y) THEN 0 - 1
    ELSE IF Len(x) > Len(y) THEN 1
    ELSE NatCmpFrom(x, y, Len(x))

RECURSIVE NatPlusFrom(_, _, _, _)
NatPlusFrom(x, y, k, carry) ==
    IF k > Len(x) /\ k > Len(y) THEN NatOf(carry)
    ELSE LET s == LimbAt(x, k) + LimbAt(y, k) + carry
         IN  <<s % Limb>> \o NatPlusFrom(x, y, k + 1, s \div Limb)

NatPlus(x, y) == NatPlusFrom(x, y, 1, 0)

\* x - y for x >= y
RECURSIVE NatMinusFrom(_, _, _, _)
NatMinusFrom(x, y, k, borrow) ==
    IF k > Len(x) THEN <<>>
    ELSE LET d == x[k] - LimbAt(y, k) - borrow
         IN  IF d < 0 THEN <<d + Limb>> \o NatMinusFrom(x, y, k + 1, 1)
             ELSE <<d>> \o NatMinusFrom(x, y, k + 1, 0)

NatMinus(x, y) == Trim(NatMinusFrom(x, y, 1, 0))

\* x * n for an integer 0 <= n <= 2^15
RECURSIVE NatTimesFrom(_, _, _, _)
NatTimesFrom(x, n, k, carry) ==
    IF k > Len(x) THEN NatOf(carry)
    ELSE LET p == x[k] * n + carry
         IN  <<p % Limb>> \o NatTimesFrom(x, n, k + 1, p \div Limb)

NatTimes(x, n) == IF n = 0 THEN <<>> ELSE NatTimesFrom(x, n, 1, 0)

\* x * 2^15
ShiftLimb(x) == IF x = <<>> THEN <<>> ELSE <<0>> \o x

\* x * y
RECURSIVE NatProductFrom(_, _, _)
NatProductFrom(x, y, k) ==
    IF k > Len(y) THEN <<>>
    ELSE NatPlus(NatTimes(x, y[k]), ShiftLimb(NatProductFrom(x, y, k + 1)))

NatProduct(x, y) == NatProductFrom(x, y, 1)

\* x \div n for an integer 0 < n <= 2^15, from the highest digit down
RECURSIVE NatDivFrom(_, _, _, _)
NatDivFrom(x, n, k, rest) ==
    IF k = 0 THEN <<>>
    ELSE LET p == rest * Limb + x[k]
         IN  NatDivFrom(x, n, k - 1, p % n) \o <<p \div n>>

NatDiv(x, n) == Trim(NatDivFrom(x, n, Len(x), 0))

\* x * 2^n and x \div 2^n
ShiftLeft(x, n) ==
    IF x = <<>> THEN <<>>
    ELSE [k \in 1..(n \div 15) |-> 0] \o NatTimes(x, 2^(n % 15))

ShiftRight(x, n) ==
    IF n \div 15 >= Len(x) THEN <<>>
    ELSE NatDiv(SubSeq(x, n \div 15 + 1, Len(x)), 2^(n % 15))

\* the number of binary digits
RECURSIVE Bits(_)
Bits(n) == IF n = 0 THEN 0 ELSE 1 + Bits(n \div 2)

BitLength(x) == IF x = <<>> THEN 0 ELSE 15 * (Len(x) - 1) + Bits(x[Len(x)])

\* x \div 2^n rounded to the nearest, a tie to the even neighbour; with
\* inexact, x stands for a number strictly between x and x + 1
RoundUp(q, c, inexact) ==
    IF c > 0 \/ (c = 0 /\ (inexact \/ LimbAt(q, 1) % 2 = 1))
    THEN NatPlus(q, <<1>>) ELSE q

\* q = x \div 2^n, and what is cut off compared with the half of 2^n
RoundQuotient(x, n, q, inexact) ==
    RoundUp(q, NatCmp(NatMinus(x, ShiftLeft(q, n)), ShiftLeft(<<1>>, n - 1)), inexact)

RoundShift(x, n, inexact) ==
    IF n = 0 THEN x ELSE RoundQuotient(x, n, ShiftRight(x, n), inexact)

\* A float is an IEEE 754 binary64 number sign * mantissa * 2^exponent with
\* 2^52 <= mantissa < 2^53, and zero has one form; the exponent range
\* (overflow, subnormal numbers) and the sign of zero are not modelled.
Zero == [sign |-> 0, mantissa |-> <<>>, exponent |-> 0]

\* the float nearest to sign * n * 2^e, ties to even; with inexact, n stands
\* for a number strictly between n and n + 1 and has 54 binary digits or more
\* rounding up can carry into a 54th digit
Carry(sign, r, e) ==
    IF BitLength(r) > 53
    THEN [sign |-> sign, mantissa |-> ShiftRight(r, 1), exponent |-> e + 1]
    ELSE [sign |-> sign, mantissa |-> r, exponent |-> e]

\* shift is the number of binary digits n has beyond 53
RoundBy(sign, n, e, inexact, shift) ==
    IF shift <= 0
    THEN [sign |-> sign, mantissa |-> ShiftLeft(n, 0 - shift), exponent |-> e + shift]
    ELSE Carry(sign, RoundShift(n, shift, inexact), e + shift)

Round(sign, n, e, inexact) ==
    IF n = <<>> THEN Zero ELSE RoundBy(sign, n, e, inexact, BitLength(n) - 53)

\* float(n) of a Python int, which is exact for an int of 32 binary digits
Float(n) ==
    IF n = 0 THEN Zero
    ELSE [sign |-> IF n < 0 THEN 0 - 1 ELSE 1,
          mantissa |-> ShiftLeft(NatOf(Abs(n)), 53 - Bits(Abs(n))),
          exponent |-> Bits(Abs(n)) - 53]

Negative(x) == [x EXCEPT !.sign = 0 - x.sign]

\* x <= y of two floats
MagnitudeCmp(x, y) ==
    IF x.exponent < y.exponent THEN 0 - 1
    ELSE IF x.exponent > y.exponent THEN 1
    ELSE NatCmp(x.mantissa, y.mantissa)

Leq(x, y) ==
    IF x.sign # y.sign THEN x.sign < y.sign
    ELSE IF x.sign = 0 THEN TRUE
    ELSE IF x.sign > 0 THEN MagnitudeCmp(x, y) <= 0
    ELSE MagnitudeCmp(x, y) >= 0

\* x >= y, x > y and x < y of two floats
Geq(x, y) == Leq(y, x)
Gt(x, y) == ~Leq(x, y)
Lt(x, y) == ~Leq(y, x)

\* x * y
Times(x, y) ==
    Round(x.sign * y.sign, NatProduct(x.mantissa, y.mantissa),
          x.exponent + y.exponent, FALSE)

\* x + y: the exact sum, rounded once; a term below 2^-64 of the other
\* leaves the other as it is
\* sx * a + sy * b for signs sx, sy other than zero, times 2^e; c compares
\* a with b
SignedSum(sx, a, sy, b, c, e) ==
    Round(IF c >= 0 THEN sx ELSE sy,
          IF sx = sy THEN NatPlus(a, b)
          ELSE IF c >= 0 THEN NatMinus(a, b) ELSE NatMinus(b, a),
          e, FALSE)

PlusAligned(sx, a, sy, b, e) == SignedSum(sx, a, sy, b, NatCmp(a, b), e)

\* e is the lesser exponent of the two
PlusAt(x, y, e) ==
    PlusAligned(x.sign, ShiftLeft(x.mantissa, x.exponent - e),
                y.sign, ShiftLeft(y.mantissa, y.exponent - e), e)

Plus(x, y) ==
    IF x.sign = 0 THEN y
    ELSE IF y.sign = 0 THEN x
    ELSE IF x.exponent - y.exponent > 64 THEN x
    ELSE IF y.exponent - x.exponent > 64 THEN y
    ELSE PlusAt(x, y, Min(x.exponent, y.exponent))

\* x - y
Minus(x, y) == Plus(x, Negative(y))

\* 15 binary digits of the quotient of r * 2^15 by d for r < d, behind the
\* digits q, and the rest: <<digits, rest>>
RECURSIVE DivideLimb(_, _, _, _)
DivideBit(q, twice, d, n) ==
    IF NatCmp(twice, d) >= 0
    THEN DivideLimb(2 * q + 1, NatMinus(twice, d), d, n - 1)
    ELSE DivideLimb(2 * q, twice, d, n - 1)

DivideLimb(q, r, d, n) ==
    IF n = 0 THEN <<q, r>> ELSE DivideBit(q, NatTimes(r, 2), d, n)

\* the quotient of r * 2^(15 * n) by d for r < d, and the rest
RECURSIVE DivideLimbs(_, _, _)
DivideJoin(digit, low) == <<low[1] \o <<digit>>, low[2]>>

DivideLow(high, d, n) == DivideJoin(high[1], DivideLimbs(high[2], d, n - 1))

DivideLimbs(r, d, n) ==
    IF n = 0 THEN <<<<>>, r>> ELSE DivideLow(DivideLimb(0, r, d, 15), d, n)

\* x / y for y other than zero: the quotient of the mantissas to 60 binary
\* digits behind its integer part, and whether a rest is left
Quotient(sign, whole, qr, e) ==
    Round(sign, IF whole THEN qr[1] \o <<1>> ELSE Trim(qr[1]), e, qr[2] # <<>>)

\* whole: the quotient of the mantissas is 1 or more
OverWhole(x, y, whole) ==
    Quotient(x.sign * y.sign, whole,
             DivideLimbs(IF whole THEN NatMinus(x.mantissa, y.mantissa)
                         ELSE x.mantissa,
                         y.mantissa, 4),
             x.exponent - y.exponent - 60)

Over(x, y) ==
    IF x.sign = 0 THEN Zero
    ELSE OverWhole(x, y, NatCmp(x.mantissa, y.mantissa) >= 0)

\* the greatest k in lo..hi with k * k <= n, for hi < 46341
RECURSIVE IntSqrt(_, _, _)
IntSqrt(lo, hi, n) ==
    IF lo = hi THEN lo
    ELSE LET mid == (lo + hi + 1) \div 2
         IN  IF mid * mid <= n THEN IntSqrt(mid, hi, n) ELSE IntSqrt(lo, mid - 1, n)

\* the square root <<root, rest>> one binary digit a step: from root and
\* rest = m - root * root to those of m * 4^n
RECURSIVE SqrtBits(_, _, _)
SqrtBit(root, r, t, n) ==
    IF NatCmp(r, t) >= 0
    THEN SqrtBits(NatPlus(NatTimes(root, 2), <<1>>), NatMinus(r, t), n - 1)
    ELSE SqrtBits(NatTimes(root, 2), r, n - 1)

SqrtBits(root, rest, n) ==
    IF n = 0 THEN <<root, rest>>
    ELSE SqrtBit(root, NatTimes(rest, 4), NatPlus(NatTimes(root, 4), <<1>>), n)

\* math.sqrt(float(n)) of an integer n >= 0: the root to 55 binary digits,
\* and whether a rest is left
SqrtRounded(rr, more) == Round(1, rr[1], 0 - more, rr[2] # <<>>)

\* more: the binary digits to add to those of the integer part
SqrtMore(n, whole, more) ==
    SqrtRounded(SqrtBits(NatOf(whole), NatOf(n - whole * whole), more), more)

SqrtFrom(n, whole) == SqrtMore(n, whole, 55 - Bits(whole))

Sqrt(n) == IF n = 0 THEN Zero ELSE SqrtFrom(n, IntSqrt(0, 46340, n))

\* the float a decimal literal of two places denotes, h / 100: the float
\* nearest to it, which is the quotient of the two integers rounded once
Literal(h) == Over(Float(h), Float(100))

\* the function f as a table of its values, each evaluated once
Table(f) == f @@ <<>>

\* the literals of the inputs and the properties
Literals == Table([h \in (0 - 100)..100 |-> Literal(h)])

\* the value at x: read from the table where the table has it
Cached(table, x, value) == IF x \in DOMAIN table THEN table[x] ELSE value

Hundredths(h) == Cached(Literals, h, Literal(h))

\* f"{x:.2f}": the sign of x and the hundredths of the decimal of two places
\* nearest to the value of the float, the even one of two equally near
Format2(x) ==
    [negative |-> x.sign < 0,
     hundredths |->
        IF x.sign = 0 THEN 0
        ELSE LET n == NatTimes(x.mantissa, 100)
             IN  IF x.exponent >= 0 THEN IntOf(ShiftLeft(n, x.exponent))
                 ELSE IntOf(RoundShift(n, 0 - x.exponent, FALSE))]

----------------------------------------------------------------------------
(* utils/similarity_utils.py *)

RECURSIVE DotUpTo(_, _, _)
DotUpTo(a, b, n) == IF n = 0 THEN 0 ELSE DotUpTo(a, b, n - 1) + a[n] * b[n]

Dot(a, b) == DotUpTo(a, b, Len(a))

\* the vectors the inputs are made of
Vectors == {<<0, 0>>, <<1, 0>>, <<0, 1>>, <<3, 4>>, <<-1, 0>>, <<1, 1>>, <<1, 2>>,
            <<5, 12>>, <<8, 15>>, <<-1, -1>>, <<1, 0, 0>>}

\* sklearn.preprocessing.normalize: the Euclidean norm of a row, the square
\* root of the sum of the squares of its components (an integer, which the
\* float holds exactly); a zero norm is replaced by 1.0
row_norm(v) == IF Dot(v, v) = 0 THEN Float(1) ELSE Sqrt(Dot(v, v))

\* each component divided by the norm of the row
Scaled(v, norm) == [k \in 1..Len(v) |-> Over(Float(v[k]), norm)]

normalize(v) == Scaled(v, row_norm(v))

\* the dot product of two rows of floats: the products added in the order of
\* the components, each product and each sum rounded
RECURSIVE FloatDotUpTo(_, _, _)
FloatDotUpTo(x, y, n) ==
    IF n = 0 THEN Zero ELSE Plus(FloatDotUpTo(x, y, n - 1), Times(x[n], y[n]))

\* the cosine as sklearn computes it: both rows normalised, then their dot
\* product; no clipping
Cosine(a, b) == FloatDotUpTo(normalize(a), normalize(b), Len(a))

\* the normalised rows and the cosines of the vectors of the inputs
Normalized == Table([v \in Vectors |-> normalize(v)])

Cosines ==
    Table([p \in {q \in Vectors \X Vectors : Len(q[1]) = Len(q[2])} |->
              FloatDotUpTo(Normalized[p[1]], Normalized[p[2]], Len(p[1]))])

\* mutant: the dot product is not normalised
cosine_similarity_unnormalised(a, b) == Float(Dot(a, b))

\* sklearn.metrics.pairwise.cosine_similarity([a], [b])[0][0]
cosine_similarity(a, b) == Cached(Cosines, <<a, b>>, Cosine(a, b))

\* cosine_similarity raises ValueError on rows of different dimension
cosine_similarity_raises(a, b) == Len(a) # Len(b)

\* mutant: the None guard is missing, so a missing embedding reaches sklearn
calculate_similarity_raises_noguard(embedding1, embedding2) ==
    cosine_similarity_raises(embedding1, embedding2)

calculate_similarity_raises(embedding1, embedding2) ==
    /\ ~(embedding1 = None \/ embedding2 = None)
    /\ cosine_similarity_raises(embedding1, embedding2)

calculate_similarity(embedding1, embedding2) ==
    IF embedding1 = None \/ embedding2 = None
    THEN Zero
    ELSE cosine_similarity(embedding1, embedding2)

\* mutant: ties are inserted in front of their equals
InsertDescUnstable(s, x) ==
    LET before == {k \in 1..Len(s) : Gt(s[k][1], x[1])}
        n == Cardinality(before)
    IN SubSeq(s, 1, n) \o <<x>> \o SubSeq(s, n + 1, Len(s))

\* one step of list.sort(reverse=True, key=lambda x: x[0]): the sort is stable,
\* an element goes behind every element whose score is >= its own
InsertDesc(s, x) ==
    LET before == {k \in 1..Len(s) : Geq(s[k][1], x[1])}
        n == Cardinality(before)
    IN SubSeq(s, 1, n) \o <<x>> \o SubSeq(s, n + 1, Len(s))

RECURSIVE SortDescFrom(_, _, _)
SortDescFrom(acc, s, k) ==
    IF k > Len(s) THEN acc ELSE SortDescFrom(InsertDesc(acc, s[k]), s, k + 1)

SortDesc(s) == SortDescFrom(<<>>, s, 1)

\* mutant: one entry too many
SliceToOffByOne(s, n) ==
    SubSeq(s, 1, IF n < 0 THEN Max(Len(s) + n + 1, 0) ELSE Min(n + 1, Len(s)))

\* s[:n] of a Python list: a negative n counts from the end
SliceTo(s, n) ==
    SubSeq(s, 1, IF n < 0 THEN Max(Len(s) + n, 0) ELSE Min(n, Len(s)))

\* mutant: a candidate without an embedding is scored like the others
IsScoredAlways(embedding) == TRUE

\* line 78: a candidate without an embedding is not scored at all
IsScored(embedding) == embedding # None

\* mutant: the threshold is not applied
KeepsAlways(sim, threshold) == TRUE

\* line 80
Keeps(sim, threshold) == Geq(sim, Hundredths(threshold))

\* the loop of lines 76-81 over enumerate(zip(...)): idx is 0-based
RECURSIVE Similarities(_, _, _, _, _)
Similarities(target_embedding, candidate_embeddings, candidate_data, threshold, k) ==
    IF k = 0 THEN <<>>
    ELSE LET rest == Similarities(target_embedding, candidate_embeddings,
                                  candidate_data, threshold, k - 1)
             embedding == candidate_embeddings[k]
             sim == calculate_similarity(target_embedding, embedding)
         IN IF IsScored(embedding) /\ Keeps(sim, threshold)
            THEN Append(rest, <<sim, k - 1, candidate_data[k]>>)
            ELSE rest

\* mutant: the loop pops the candidates off the caller's lists
args_after_consumed(candidate_embeddings, candidate_data) ==
    [candidate_embeddings |-> <<>>, candidate_data |-> <<>>]

\* the caller's two lists when find_top_matches is left: lines 76-85 read them
\* through zip and write to the local list similarities alone (append, sort),
\* and line 85 returns a slice of that list
args_after(candidate_embeddings, candidate_data) ==
    [candidate_embeddings |-> candidate_embeddings, candidate_data |-> candidate_data]

find_top_matches_raises(target_embedding, candidate_embeddings, candidate_data) ==
    \E k \in 1..Min(Len(candidate_embeddings), Len(candidate_data)) :
        /\ IsScored(candidate_embeddings[k])
        /\ calculate_similarity_raises(target_embedding, candidate_embeddings[k])

find_top_matches(target_embedding, candidate_embeddings, candidate_data, top_n, threshold) ==
    SliceTo(SortDesc(Similarities(target_embedding, candidate_embeddings, candidate_data,
                                  threshold,
                                  Min(Len(candidate_embeddings), Len(candidate_data)))),
            top_n)

----------------------------------------------------------------------------
(* validator_backup.py: ParentChildValidator.validate_relationships *)

\* Python lists are 0-based
PyAt(s, i) == s[i + 1]

\* lines 46 and 60: item.get('parent_name') is truthy
HasParent(item) == Truthy(Get(item, "parent_name"))

\* mutant: the record itself is not excluded
IsCandidateSelfToo(d, i, idx) == HasParent(PyAt(d, i))

\* line 60: x.get('parent_name') and i != idx
IsCandidate(d, i, idx) == HasParent(PyAt(d, i)) /\ i # idx

\* lines 58-61
all_parent_indices(d, idx) ==
    LET Test(i) == IsCandidate(d, i, idx)
    IN SelectSeq([k \in 1..Len(d) |-> k - 1], Test)

\* line 62
parent_candidates(d, indices) == [k \in 1..Len(indices) |-> PyAt(d, indices[k])]

\* line 63
parent_candidate_embeddings(emb, indices) ==
    [k \in 1..Len(indices) |-> PyAt(emb.parent, indices[k])]

\* mutant: the rank of a match is taken for its index
suggestions_by_rank(best_matches, candidates) ==
    [k \in 1..Len(best_matches) |->
        LET parent_data == PyAt(candidates, k - 1)
        IN [parent_key |-> Get(parent_data, "parnet_key"),
            parent_name |-> Get(parent_data, "parent_name"),
            similarity_score |-> best_matches[k][1]]]

\* lines 74-81: match_idx indexes parent_candidates
suggestions(best_matches, candidates) ==
    [k \in 1..Len(best_matches) |->
        LET parent_data == PyAt(candidates, best_matches[k][2])
        IN [parent_key |-> Get(parent_data, "parnet_key"),
            parent_name |-> Get(parent_data, "parent_name"),
            similarity_score |-> best_matches[k][1]]]

\* mutant: a score equal to the threshold is rejected
IsValidStrict(similarity_score, similarity_threshold) ==
    Gt(similarity_score, Hundredths(similarity_threshold))

\* lines 93-94: similarity_score >= similarity_threshold
IsValid(similarity_score, similarity_threshold) ==
    Geq(similarity_score, Hundredths(similarity_threshold))

\* lines 84-95
ResultOf(item, similarity_score, suggested, similarity_threshold) ==
    [root_key |-> Get(item, "root_key"),
     root_name |-> Get(item, "root_name"),
     current_parent |-> [parent_key |-> Get(item, "parnet_key"),
                         parent_name |-> Get(item, "parent_name"),
                         similarity_score |-> similarity_score],
     suggested_parents |-> suggested,
     validation |-> IF IsValid(similarity_score, similarity_threshold)
                    THEN "VALID" ELSE "INVALID",
     validation_status |-> IF IsValid(similarity_score, similarity_threshold)
                           THEN "PASS" ELSE "FAIL"]

\* one pass of the loop body, lines 49-95, for the record at idx: whether it
\* raises, the find_top_matches call it makes and the result it appends
LoopBody(d, emb, idx, similarity_threshold) ==
    LET item == PyAt(d, idx)
        root_embedding == PyAt(emb.root, idx)
        parent_embedding == PyAt(emb.parent, idx)
        indices == all_parent_indices(d, idx)
        candidates == parent_candidates(d, indices)
        candidate_embeddings == parent_candidate_embeddings(emb, indices)
        raises == \/ calculate_similarity_raises(root_embedding, parent_embedding)
                  \/ find_top_matches_raises(root_embedding, candidate_embeddings, candidates)
        score == calculate_similarity(root_embedding, parent_embedding)
        best_matches == find_top_matches(root_embedding, candidate_embeddings, candidates,
                                         DEFAULT_TOP_N, similarity_threshold)
    IN IF raises
       THEN [raises |-> TRUE]
       ELSE [raises |-> FALSE,
             ranker |-> [idx |-> idx,
                         target_embedding |-> root_embedding,
                         indices |-> indices,
                         candidate_embeddings |-> candidate_embeddings,
                         candidate_data |-> candidates,
                         top_n |-> DEFAULT_TOP_N,
                         threshold |-> similarity_threshold,
                         returned |-> best_matches],
             result |-> ResultOf(item, score, suggestions(best_matches, candidates),
                                 similarity_threshold)]

\* mutant: a record without a parent is validated too
IsValidatedAlways(item) == TRUE

\* lines 46-47: skip items with no parent
IsValidated(item) == HasParent(item)

\* the loop of lines 45-95 over the first n records: the passes made, in order
RECURSIVE ValidateLoop(_, _, _, _)
ValidateLoop(d, emb, similarity_threshold, n) ==
    IF n = 0 THEN <<>>
    ELSE LET rest == ValidateLoop(d, emb, similarity_threshold, n - 1)
         IN IF IsValidated(d[n])
            THEN Append(rest, LoopBody(d, emb, n - 1, similarity_threshold))
            ELSE rest

\* an exception of any pass leaves validate_relationships
Raises(passes) == \E k \in 1..Len(passes) : passes[k].raises

\* mutant: the result list outlives the call (an attribute, a mutable default)
results_kept == ret

\* line 43: results = []
results_fresh == <<>>

\* lines 43, 84 and 97: the results appended, in order
Results(passes) == results_fresh \o [k \in 1..Len(passes) |-> passes[k].result]

\* the find_top_matches calls made, in order
RankerCalls(passes) == [k \in 1..Len(passes) |-> passes[k].ranker]

\* line 41: def validate_relationships(self, similarity_threshold: float = 0.6)
ValidateParameters == {"similarity_threshold"}

\* mutant: the signature also takes **kwargs
validate_relationships_binds_any(kwargs) == TRUE

\* Python binds the keyword arguments of a call to the parameters of the
\* signature; a keyword that names no parameter is a TypeError
validate_relationships_binds(kwargs) == DOMAIN kwargs \subseteq ValidateParameters

\* the threshold the body runs with: the argument, or the default of line 41
BoundThreshold(kwargs) ==
    IF "similarity_threshold" \in DOMAIN kwargs
    THEN kwargs["similarity_threshold"]
    ELSE DEFAULT_SIMILARITY_THRESHOLD

----------------------------------------------------------------------------
(* validator.py: ParentChildValidator.validate_relationships *)

\* the methods class SimilarityCalculator defines (similarity_utils.py 54-85)
SimilarityCalculatorMethods == {"calculate_similarity", "find_top_matches"}

\* line 82 looks up self.similarity_calculator.find_best_matches for the first
\* record that has a parent: AttributeError
validator_validate_relationships_raises(d) ==
    /\ "find_best_matches" \notin SimilarityCalculatorMethods
    /\ \E idx \in 0..(Len(d) - 1) : HasParent(PyAt(d, idx))

\* no record reaches line 97 unless find_best_matches exists; with no
\* parent-bearing record the loop appends nothing
validator_validate_relationships(d) == <<>>

\* lines 64-82: the exception validate_relationships leaves with, "none" when
\* it returns: the first record with a parent has its similarity computed
\* (line 70, ValueError for vectors of different dimension) before line 82
\* looks up find_best_matches
validator_validate_relationships_raised(d, emb) ==
    IF ~validator_validate_relationships_raises(d) THEN "none"
    ELSE LET idx == CHOOSE i \in 0..(Len(d) - 1) :
                       /\ HasParent(PyAt(d, i))
                       /\ \A j \in 0..(i - 1) : ~HasParent(PyAt(d, j))
         IN  IF calculate_similarity_raises(PyAt(emb.root, idx), PyAt(emb.parent, idx))
             THEN "ValueError" ELSE "AttributeError"

\* line 58: def validate_relationships(self)
ValidatorParameters == {}

----------------------------------------------------------------------------
(* Inputs *)

\* embeddings of direct calls: missing, zero, and vectors of norm 1 and 5
Emb == {None, <<0, 0>>, <<1, 0>>, <<3, 4>>, <<-1, 0>>}

\* embeddings of direct calculate_similarity calls: those, and vectors of
\* norm sqrt(2), sqrt(5), 13 and 17, whose cosines are no multiples of 1/100
\* and whose cosine with themselves is rounded to a float below or above 1.0
EmbScored == Emb \cup {<<1, 1>>, <<1, 2>>, <<5, 12>>, <<8, 15>>, <<-1, -1>>}

\* a vector of another dimension, which sklearn rejects
Malformed == <<1, 0, 0>>

\* thresholds a caller passes, in hundredths; 60 is the declared default
Thresholds == {0, 60, 100}

\* the keyword arguments a caller passes to validate_relationships: the
\* validity threshold, the suggestion threshold and the number of suggestions
KwValue == [similarity_threshold |-> 0, suggestion_threshold |-> 60, top_n |-> 0]

Kw(names) == [n \in names |-> KwValue[n]]

\* no argument, the validity threshold alone, the number of suggestions alone,
\* and all three knobs
ValidateKwargs == {Kw({}), Kw({"similarity_threshold"}), Kw({"top_n"}),
                   Kw({"similarity_threshold", "suggestion_threshold", "top_n"})}

TopNs == (0 - MaxCands)..MaxCands

\* the records a dataset is made of: the dict without its root_key, and the
\* two embeddings the table holds for it
RecordKinds == <<
    [item |-> [root_name |-> "a", parent_name |-> "P", parnet_key |-> "kP"],
     root |-> <<1, 0>>, parent |-> <<1, 0>>],
    [item |-> [root_name |-> "b", parent_name |-> "Q", parent_key |-> "kQ"],
     root |-> <<3, 4>>, parent |-> <<1, 0>>],
    [item |-> [root_name |-> "c"],
     root |-> <<1, 0>>, parent |-> <<3, 4>>],
    [item |-> [root_name |-> "d", parent_name |-> "", parnet_key |-> ""],
     root |-> <<3, 4>>, parent |-> <<3, 4>>],
    [item |-> [root_name |-> "e", parent_name |-> "P", parnet_key |-> "kP"],
     root |-> None, parent |-> <<0, 1>>],
    [item |-> [parent_name |-> "Q", parnet_key |-> "kQ"],
     root |-> <<0, 1>>, parent |-> None] >>

\* a record whose parent vector has another dimension than the others
MalformedRecord ==
    [item |-> [root_name |-> "m", parent_name |-> "P", parnet_key |-> "kP"],
     root |-> <<1, 0>>, parent |-> Malformed]

AllRecordKinds == Append(RecordKinds, MalformedRecord)

\* every dataset of up to MaxRecords records, and the datasets of one record
\* more whose records all have a parent (kinds 1, 2 and 6), where a record has
\* more candidates than find_top_matches returns
Datasets == UNION {[1..n -> 1..Len(RecordKinds)] : n \in 0..MaxRecords}
            \cup [1..(MaxRecords + 1) -> {1, 2, 6}]

\* json.load of the data file: record i carries root_key i
LoadData(f) == [i \in 1..Len(f) |-> AllRecordKinds[f[i]].item @@ ("root_key" :> i)]

\* the embedding table, aligned with the records
LoadEmbeddings(f) == [root |-> [i \in 1..Len(f) |-> AllRecordKinds[f[i]].root],
                      parent |-> [i \in 1..Len(f) |-> AllRecordKinds[f[i]].parent]]

\* the datasets of up to MaxCands records with a parent (kinds 1, 2 and 6)
\* in which some record has a malformed parent vector
MalformedDatasets ==
    {f \in UNION {[1..n -> {1, 2, 6, Len(AllRecordKinds)}] : n \in 1..MaxCands} :
        \E i \in 1..Len(f) : f[i] = Len(AllRecordKinds)}

----------------------------------------------------------------------------
(* The state machine *)

NoCall == [op |-> "none"]

NoArgs == [candidate_embeddings |-> <<>>, candidate_data |-> <<>>]

\* no report prepared yet
NoReport == [current |-> <<>>, suggestions |-> <<>>]

\* no summary produced yet, or none produced because the step raised
NoSummary == <<>>

NoEarlier == [call |-> NoCall, ret |-> <<>>, raised |-> "none"]

\* what the operation before new_call did, kept when it was the same invocation
Earlier(new_call) ==
    IF call = new_call
    THEN [call |-> call, ret |-> ret, raised |-> raised]
    ELSE NoEarlier

\* the state after construction over one of the datasets; the direct calls of
\* similarity_utils need no dataset
InitOver(datasets) ==
    /\ prog \in {"similarity_utils", "validator_backup", "validator"}
    /\ \E f \in (IF prog = "similarity_utils" THEN {<<>>} ELSE datasets) :
          /\ data = LoadData(f)
          /\ embeddings = LoadEmbeddings(f)
          /\ disk = [path |-> "embeddings/embeddings.pkl",
                     data |-> [type |-> "list", value |-> LoadData(f)],
                     embeddings |-> [exists |-> TRUE, table |-> LoadEmbeddings(f)]]
    /\ call = NoCall
    /\ ret = <<>>
    /\ retf = Hundredths(0)
    /\ raised = "none"
    /\ prev = NoEarlier
    /\ rankerCalls = <<>>
    /\ argsAfter = NoArgs
    /\ providerCalls = <<>>
    /\ report = NoReport
    /\ summary = NoSummary

\* tables whose vectors all have one dimension
Init == InitOver(Datasets)

\* tables with a malformed vector
InitMalformed == InitOver(MalformedDatasets)

\* SimilarityCalculator.calculate_similarity(embedding1, embedding2); the
\* methods are static and keep no state, so a run makes one direct call
CalculateSimilarity ==
    /\ prog = "similarity_utils"
    /\ call = NoCall
    /\ \E embedding1 \in EmbScored \cup {Malformed},
          embedding2 \in EmbScored \cup {Malformed} :
          /\ call' = [op |-> "calculate_similarity",
                      embedding1 |-> embedding1, embedding2 |-> embedding2]
          /\ IF calculate_similarity_raises(embedding1, embedding2)
             THEN raised' = "ValueError" /\ retf' = Hundredths(0)
             ELSE raised' = "none" /\ retf' = calculate_similarity(embedding1, embedding2)
    /\ prev' = Earlier(call')
    /\ UNCHANGED <<prog, data, embeddings, ret, rankerCalls, argsAfter, env>>

\* SimilarityCalculator.find_top_matches(target, embeddings, data, top_n, threshold)
FindTopMatches ==
    /\ prog = "similarity_utils"
    /\ call = NoCall
    /\ \E n \in 0..MaxCands :
       \E candidate_embeddings \in [1..n -> Emb \cup {Malformed}], target_embedding \in Emb,
          top_n \in TopNs, threshold \in Thresholds :
          LET candidate_data == [k \in 1..n |-> [root_key |-> k]]
          IN /\ call' = [op |-> "find_top_matches",
                         target_embedding |-> target_embedding,
                         candidate_embeddings |-> candidate_embeddings,
                         candidate_data |-> candidate_data,
                         top_n |-> top_n, threshold |-> threshold]
             /\ argsAfter' = args_after(candidate_embeddings, candidate_data)
             /\ IF find_top_matches_raises(target_embedding, candidate_embeddings,
                                           candidate_data)
                THEN raised' = "ValueError" /\ ret' = <<>>
                ELSE /\ raised' = "none"
                     /\ ret' = find_top_matches(target_embedding, candidate_embeddings,
                                                candidate_data, top_n, threshold)
    /\ prev' = Earlier(call')
    /\ UNCHANGED <<prog, data, embeddings, retf, rankerCalls, env>>

\* validator_backup.py: validator.validate_relationships(**kwargs)
ValidateRelationships ==
    /\ prog = "validator_backup"
    /\ \E kwargs \in ValidateKwargs :
          IF ~validate_relationships_binds(kwargs)
          THEN /\ call' = [op |-> "validate_relationships", kwargs |-> kwargs,
                           bound |-> FALSE,
                           similarity_threshold |-> BoundThreshold(kwargs)]
               /\ raised' = "TypeError" /\ ret' = <<>> /\ rankerCalls' = <<>>
          ELSE \E similarity_threshold \in {BoundThreshold(kwargs)} :
               \E passes \in {ValidateLoop(data, embeddings, similarity_threshold,
                                           Len(data))} :
                  /\ call' = [op |-> "validate_relationships", kwargs |-> kwargs,
                              bound |-> TRUE,
                              similarity_threshold |-> similarity_threshold]
                  /\ IF Raises(passes)
                     THEN raised' = "ValueError" /\ ret' = <<>> /\ rankerCalls' = <<>>
                     ELSE /\ raised' = "none"
                          /\ ret' = Results(passes)
                          /\ rankerCalls' = RankerCalls(passes)
    /\ prev' = Earlier(call')
    /\ UNCHANGED <<prog, data, embeddings, retf, argsAfter, env>>

\* validator.py: validator.validate_relationships()
ValidatorValidateRelationships ==
    /\ prog = "validator"
    /\ call' = [op |-> "validate_relationships", kwargs |-> Kw(ValidatorParameters),
                bound |-> TRUE,
                similarity_threshold |-> SIMILARITY_THRESHOLD]
    /\ raised' = validator_validate_relationships_raised(data, embeddings)
    /\ ret' = IF validator_validate_relationships_raises(data)
              THEN <<>> ELSE validator_validate_relationships(data)
    /\ rankerCalls' = <<>>
    /\ prev' = Earlier(call')
    /\ UNCHANGED <<prog, data, embeddings, retf, argsAfter, env>>

Next ==
    \/ CalculateSimilarity
    \/ FindTopMatches
    \/ ValidateRelationships
    \/ ValidatorValidateRelationships

Spec == Init /\ [][Next]_vars

SpecMalformed == InitMalformed /\ [][Next]_vars

----------------------------------------------------------------------------
(* Construction: ParentChildValidator.__init__ of both variants, and       *)
(* EmbeddingGenerator of utils/embedding_utils.py                          *)

MaxFileRecords == 2     \* records in a data file of the construction runs

EmptyTable == [root |-> <<>>, parent |-> <<>>]

NoFile == [exists |-> FALSE, table |-> EmptyTable]

\* dict.get(key, default)
GetOr(d, k, default) == IF k \in DOMAIN d THEN d[k] ELSE default

\* SentenceTransformer.encode of one text: a vector that depends on the text
\* alone
Encode(text) ==
    CASE text = "x" -> <<1, 0>>
      [] text = "y" -> <<3, 4>>
      [] OTHER -> <<0, 1>>

\* embedding_utils.py line 40: one vector per text, in order
generate_embeddings(texts) == [k \in 1..Len(texts) |-> Encode(texts[k])]

\* validator_backup.py lines 30-31, validator.py lines 42-43
root_descriptions(d) == [k \in 1..Len(d) |-> GetOr(d[k], "root_description", "")]
parent_summaries(d) == [k \in 1..Len(d) |-> GetOr(d[k], "parent_short_summary", "")]

\* mutant: the type of the loaded value is not checked
IsListAlways(json) == TRUE

\* isinstance(data, list) of the value json.load returned
IsList(json) == json.type = "list"

\* mutant: the cache is never found
IsCachedNever(cache) == FALSE

\* load_embeddings, lines 50-53: the pickled table if the file exists, else None
IsCached(cache) == cache.exists

\* os.path.dirname of the two embeddings paths
dirname(path) == IF path = "embeddings/embeddings.pkl" THEN "embeddings" ELSE ""

\* os.makedirs(name, exist_ok=True) raises FileNotFoundError for the empty name
makedirs_raises(name) == name = ""

\* __init__ of variant p over the files dk: the exception that leaves it, the
\* fields of the validator it builds, the EmbeddingGenerator methods it
\* calls, and the files afterwards
Construction(p, dk) ==
    IF ~IsList(dk.data)
    THEN [raised |-> "ValueError", data |-> <<>>, embeddings |-> EmptyTable,
          providerCalls |-> <<>>, disk |-> dk]
    ELSE
    IF IsCached(dk.embeddings)
    THEN [raised |-> "none", data |-> dk.data.value, embeddings |-> dk.embeddings.table,
          providerCalls |-> <<"load_embeddings">>, disk |-> dk]
    ELSE
    LET d == dk.data.value
        table == [root |-> generate_embeddings(root_descriptions(d)),
                  parent |-> generate_embeddings(parent_summaries(d))]
        generated == <<"load_embeddings", "generate_embeddings", "generate_embeddings">>
    IN IF makedirs_raises(dirname(dk.path))
       THEN [raised |-> "FileNotFoundError", data |-> <<>>, embeddings |-> EmptyTable,
             \* validator.py line 54 raises before save_embeddings is called,
             \* validator_backup.py inside it (embedding_utils.py line 44)
             providerCalls |-> IF p = "validator" THEN generated
                               ELSE Append(generated, "save_embeddings"),
             disk |-> dk]
       ELSE [raised |-> "none", data |-> d, embeddings |-> table,
             providerCalls |-> Append(generated, "save_embeddings"),
             disk |-> [dk EXCEPT !.embeddings = [exists |-> TRUE, table |-> table]]]

\* the records of a data file
FileRecords == <<
    [root_key |-> "r1", root_name |-> "a", parent_name |-> "P", parnet_key |-> "kP",
     root_description |-> "x", parent_short_summary |-> "y"],
    [root_key |-> "r2", root_name |-> "c", root_description |-> "y"] >>

\* what json.load returns for the data file: an array of records, or a
\* value that is not an array
DataFiles ==
    {[type |-> "list", value |-> [i \in 1..Len(f) |-> FileRecords[f[i]]]] :
        f \in UNION {[1..n -> 1..Len(FileRecords)] : n \in 0..MaxFileRecords}}
    \cup {[type |-> "dict", value |-> <<FileRecords[1]>>],
          [type |-> "number", value |-> <<>>]}

Paths == {"embeddings/embeddings.pkl", "embeddings.pkl"}

InitConstruct ==
    /\ prog \in {"validator_backup", "validator"}
    /\ \E path \in Paths, file \in DataFiles :
          disk = [path |-> path, data |-> file, embeddings |-> NoFile]
    /\ data = <<>>
    /\ embeddings = EmptyTable
    /\ call = NoCall
    /\ ret = <<>>
    /\ retf = Hundredths(0)
    /\ raised = "none"
    /\ prev = NoEarlier
    /\ rankerCalls = <<>>
    /\ argsAfter = NoArgs
    /\ providerCalls = <<>>
    /\ report = NoReport
    /\ summary = NoSummary

\* ParentChildValidator(data_path, embeddings_path)
Construct ==
    \E c \in {Construction(prog, disk)} :
        /\ call' = [op |-> "__init__", file |-> disk.data, cache |-> disk.embeddings]
        /\ raised' = c.raised
        /\ data' = c.data
        /\ embeddings' = c.embeddings
        /\ providerCalls' = c.providerCalls
        /\ disk' = c.disk
        /\ UNCHANGED <<prog, ret, retf, prev, rankerCalls, argsAfter, report, summary>>

\* between two runs the data file is replaced
ChangeDataset ==
    /\ \E file \in DataFiles \ {disk.data} : disk' = [disk EXCEPT !.data = file]
    /\ UNCHANGED <<prog, data, embeddings, call, ret, retf, raised, prev, rankerCalls,
                   argsAfter, providerCalls, report, summary>>

NextConstruct ==
    \/ Construct
    \/ ChangeDataset

SpecConstruct == InitConstruct /\ [][NextConstruct]_vars

----------------------------------------------------------------------------
(* Reports: prepare_report_data of test_streamlit.py and prepare_data of   *)
(* test_streamlit_backup.py, which turn validation results into table rows *)

\* mutant: an equal score counts as an improvement
IsImprovedOrEqual(new_score, current_score) == Geq(new_score, current_score)

\* test_streamlit_backup.py line 100: the suggestion's score is strictly greater
IsImproved(new_score, current_score) == Gt(new_score, current_score)

\* mutant: the difference is taken the other way round
ImprovementReversed(new_score, current_score) == Minus(current_score, new_score)

\* test_streamlit.py line 77, test_streamlit_backup.py line 99
Improvement(new_score, current_score) == Minus(new_score, current_score)

\* test_streamlit.py lines 61-67
OldRelationship(result) ==
    ("Root Key" :> result.root_key) @@ ("Root Name" :> result.root_name)
    @@ ("Current Parent" :> result.current_parent.parent_name)
    @@ ("Similarity Score" :> result.current_parent.similarity_score)
    @@ ("Validation" :> result.validation)

\* test_streamlit.py lines 71-78
NewSuggestion(result, suggestion) ==
    ("Root Key" :> result.root_key) @@ ("Root Name" :> result.root_name)
    @@ ("Current Parent" :> result.current_parent.parent_name)
    @@ ("Suggested Parent" :> suggestion.parent_name)
    @@ ("Similarity Score" :> suggestion.similarity_score)
    @@ ("Improvement" :> Improvement(suggestion.similarity_score,
                                     result.current_parent.similarity_score))

\* test_streamlit_backup.py lines 81-88
CurrentRow(result) ==
    ("Root Key" :> result.root_key) @@ ("Root Name" :> result.root_name)
    @@ ("Current Parent" :> result.current_parent.parent_name)
    @@ ("Score" :> result.current_parent.similarity_score)
    @@ ("Status" :> result.validation)
    @@ ("Validation Status" :> result.validation_status)

\* test_streamlit_backup.py lines 92-101
SuggestionRow(result, suggestion) ==
    ("Root Key" :> result.root_key) @@ ("Root Name" :> result.root_name)
    @@ ("Current Parent" :> result.current_parent.parent_name)
    @@ ("Current Score" :> result.current_parent.similarity_score)
    @@ ("Suggested Parent" :> suggestion.parent_name)
    @@ ("New Score" :> suggestion.similarity_score)
    @@ ("Improvement" :> Improvement(suggestion.similarity_score,
                                     result.current_parent.similarity_score))
    @@ ("Status" :> IF IsImproved(suggestion.similarity_score,
                                  result.current_parent.similarity_score)
                    THEN "IMPROVED" ELSE "NOT IMPROVED")

\* the rows the inner loop appends for each of the first n results, in order
RECURSIVE Appended(_, _)
Appended(rows, n) == IF n = 0 THEN <<>> ELSE Appended(rows, n - 1) \o rows[n]

\* test_streamlit.py lines 54-80: the two lists the data frames are built from
prepare_report_data(results) ==
    [current |-> [k \in 1..Len(results) |-> OldRelationship(results[k])],
     suggestions |->
         Appended([k \in 1..Len(results) |->
                     [m \in 1..Len(results[k].suggested_parents) |->
                         NewSuggestion(results[k], results[k].suggested_parents[m])]],
                  Len(results))]

\* test_streamlit_backup.py lines 74-103
prepare_data(results) ==
    [current |-> [k \in 1..Len(results) |-> CurrentRow(results[k])],
     suggestions |->
         Appended([k \in 1..Len(results) |->
                     [m \in 1..Len(results[k].suggested_parents) |->
                         SuggestionRow(results[k], results[k].suggested_parents[m])]],
                  Len(results))]

\* the f"{(part/whole)*100:.1f}" of validator.py lines 143-144 and 244 and of
\* test_streamlit.py line 96, in tenths of a percent: the quotient rounded to
\* the nearest tenth (no tie arises while whole is below 16)
Percent(part, whole) == (2000 * part + whole) \div (2 * whole)

\* len(df[df[column] == value]), and the sum(...) of validator.py line 141
Count(rows, column, value) ==
    Cardinality({k \in 1..Len(rows) : rows[k][column] = value})

\* the columns of pd.DataFrame(rows): the keys of the rows, none for no rows
DataFrameColumns(rows) == UNION {DOMAIN rows[k] : k \in 1..Len(rows)}

\* validator.py lines 119-128: the keys generate_report reads from a result
ReportKeys ==
    {"root_key", "root_name", "root_description", "current_parent",
     "validation", "validation_status", "suggested_parents"}

\* validator.py lines 118-136: what the lines written for one result show
ReportBlock(result) ==
    [root_key |-> result.root_key,
     root_name |-> result.root_name,
     root_description |-> result.root_description,
     parent_name |-> result.current_parent.parent_name,
     similarity_score |-> Format2(result.current_parent.similarity_score),
     validation |-> result.validation,
     validation_status |-> result.validation_status,
     suggestions |-> [m \in 1..Len(result.suggested_parents) |->
                        <<result.suggested_parents[m].parent_name,
                          Format2(result.suggested_parents[m].similarity_score)>>]]

\* validator.py lines 113-146: the exception generate_report leaves with: a
\* result without one of the keys it reads, or passed/total with total = 0
generate_report_raised(validation_results) ==
    IF \E k \in 1..Len(validation_results) :
          ~(ReportKeys \subseteq DOMAIN validation_results[k])
    THEN "KeyError"
    ELSE IF Len(validation_results) = 0 THEN "ZeroDivisionError" ELSE "none"

\* validator.py lines 113-146: what the report says when it is returned
generate_report(validation_results) ==
    LET total == Len(validation_results)
        passed == Count(validation_results, "validation_status", "PASS")
    IN  [blocks |-> [k \in 1..total |-> ReportBlock(validation_results[k])],
         total |-> total,
         passed |-> passed,
         passed_percent |-> Percent(passed, total),
         failed |-> total - passed,
         failed_percent |-> Percent(total - passed, total)]

\* validator.py lines 158-168: one row of the Excel sheet
ExcelRow(result) ==
    ("Root Key" :> result.root_key) @@ ("Root Name" :> result.root_name)
    @@ ("Root Description" :> result.root_description)
    @@ ("Current Parent" :> result.current_parent.parent_name)
    @@ ("Parent Key" :> result.current_parent.parent_key)
    @@ ("Similarity Score" :> result.current_parent.similarity_score)
    @@ ("Validation" :> result.validation)
    @@ ("Status" :> result.validation_status)
    @@ ("Suggested Parents" :>
            [m \in 1..Len(result.suggested_parents) |->
                <<result.suggested_parents[m].parent_name,
                  Format2(result.suggested_parents[m].similarity_score)>>])

\* validator.py lines 148-170: the rows the data frame is built from
generate_excel_report(validation_results) ==
    [k \in 1..Len(validation_results) |-> ExcelRow(validation_results[k])]

\* validator.py lines 238-244: df['Status'] of a frame without that column
\* is a KeyError; passed/total with total = 0 a ZeroDivisionError
summary_statistics_raised(rows) ==
    IF "Status" \notin DataFrameColumns(rows) THEN "KeyError"
    ELSE IF Len(rows) = 0 THEN "ZeroDivisionError" ELSE "none"

\* validator.py lines 238-245: summary_data
summary_statistics(rows) ==
    LET total == Len(rows)
        passed == Count(rows, "Status", "PASS")
    IN  ("Total Relationships" :> total) @@ ("Passed" :> passed)
        @@ ("Failed" :> total - passed) @@ ("Pass Rate" :> Percent(passed, total))

\* test_streamlit.py lines 95-96: old_df['Validation'] of a frame without that
\* column is a KeyError; passed/len(old_df) of an empty frame a ZeroDivisionError
display_metrics_raised(old_rows) ==
    IF "Validation" \notin DataFrameColumns(old_rows) THEN "KeyError"
    ELSE IF Len(old_rows) = 0 THEN "ZeroDivisionError" ELSE "none"

\* the sum of the Improvement column over the first n rows: the values added
\* in the order of the rows
RECURSIVE SumImprovement(_, _)
SumImprovement(rows, n) ==
    IF n = 0 THEN Zero ELSE Plus(SumImprovement(rows, n - 1), rows[n]["Improvement"])

\* test_streamlit.py line 101: the mean of the Improvement column, the sum
\* over the number of rows, and 0 for an empty frame
avg_improvement(new_rows) ==
    IF Len(new_rows) = 0 THEN Zero
    ELSE Over(SumImprovement(new_rows, Len(new_rows)), Float(Len(new_rows)))

\* test_streamlit.py lines 82-103: the metrics shown, in the order of the
\* columns; the first is on the page before lines 95-96 can raise, the last
\* is the mean as line 102 formats it, f"{avg_improvement:.2f}"
display_metrics(old_rows, new_rows) ==
    LET shown == ("Total Relationships" :> Len(old_rows))
    IN  IF display_metrics_raised(old_rows) # "none" THEN shown
        ELSE shown
             @@ ("Valid Relationships" :>
                    <<Count(old_rows, "Validation", "VALID"),
                      Percent(Count(old_rows, "Validation", "VALID"), Len(old_rows))>>)
             @@ ("Avg. Improvement Possible" :> Format2(avg_improvement(new_rows)))

\* test_streamlit_backup.py line 114: current_df['Score'] of a frame without
\* that column is a KeyError
display_current_relationships_raised(current_rows) ==
    IF "Score" \notin DataFrameColumns(current_rows) THEN "KeyError" ELSE "none"

\* test_streamlit_backup.py lines 114-116: the Dynamic Validation column,
\* set on the frame that was passed
DynamicValidation(current_rows, validation_threshold) ==
    [k \in 1..Len(current_rows) |->
        ("Dynamic Validation" :>
            IF Geq(current_rows[k]["Score"], Hundredths(validation_threshold))
            THEN "VALID" ELSE "INVALID")
        @@ current_rows[k]]

\* test_streamlit_backup.py lines 119-129: the four metrics shown
display_current_relationships(current_rows, validation_threshold) ==
    LET rows == DynamicValidation(current_rows, validation_threshold)
        valid == Count(rows, "Dynamic Validation", "VALID")
        invalid == Count(rows, "Dynamic Validation", "INVALID")
    IN  ("Total Relationships" :> Len(rows))
        @@ ("Valid" :> <<valid, Percent(valid, Len(rows))>>)
        @@ ("Invalid" :> <<invalid, Percent(invalid, Len(rows))>>)
        @@ ("Validation Threshold" :> validation_threshold)

\* test_streamlit_backup.py lines 105-107: df[df[score_column] >= min_score],
\* the positions of the rows kept
filter_by_score(rows, score_column, min_score) ==
    {k \in 1..Len(rows) : Geq(rows[k][score_column], Hundredths(min_score))}

\* test_streamlit_backup.py line 173: the column lookup of filter_by_score on
\* a frame without columns is a KeyError
display_improvement_suggestions_raised(suggestion_rows) ==
    IF "New Score" \notin DataFrameColumns(suggestion_rows) THEN "KeyError" ELSE "none"

\* test_streamlit_backup.py lines 173-182: the three metrics shown
display_improvement_suggestions(suggestion_rows, improvement_threshold) ==
    LET kept == filter_by_score(suggestion_rows, "New Score", improvement_threshold)
    IN  ("Total Suggestions" :> Cardinality(kept))
        @@ ("Improving" :>
               Cardinality({k \in kept : suggestion_rows[k]["Status"] = "IMPROVED"}))
        @@ ("Minimum Score" :> improvement_threshold)

\* the datasets whose validation results the reports are prepared from
ReportDatasets == UNION {[1..n -> 1..Len(RecordKinds)] : n \in 0..MaxCands}

\* the results the report functions are applied to: those validate_relationships
\* of validator_backup.py returned for a dataset
InitReport ==
    /\ prog = "reports"
    /\ \E f \in ReportDatasets, similarity_threshold \in {0, DEFAULT_SIMILARITY_THRESHOLD} :
          /\ data = LoadData(f)
          /\ embeddings = LoadEmbeddings(f)
          /\ disk = [path |-> "embeddings/embeddings.pkl",
                     data |-> [type |-> "list", value |-> LoadData(f)],
                     embeddings |-> [exists |-> TRUE, table |-> LoadEmbeddings(f)]]
          /\ ret = Results(ValidateLoop(LoadData(f), LoadEmbeddings(f),
                                        similarity_threshold, Len(f)))
          /\ call = [op |-> "validate_relationships",
                     similarity_threshold |-> similarity_threshold]
    /\ retf = Hundredths(0)
    /\ raised = "none"
    /\ prev = NoEarlier
    /\ rankerCalls = <<>>
    /\ argsAfter = NoArgs
    /\ providerCalls = <<>>
    /\ report = NoReport
    /\ summary = NoSummary

\* test_streamlit.py lines 42-52: load_data() returns what validate_relationships
\* of validator.py returns, and raises what it raises
StreamlitLoadData ==
    /\ call' = [op |-> "load_data", module |-> "test_streamlit"]
    /\ raised' = validator_validate_relationships_raised(data, embeddings)
    /\ ret' = IF validator_validate_relationships_raises(data)
              THEN <<>> ELSE validator_validate_relationships(data)
    /\ summary' = NoSummary
    /\ UNCHANGED <<prog, data, embeddings, retf, prev, rankerCalls,
                   argsAfter, disk, providerCalls, report>>

\* test_streamlit_backup.py lines 58-72: load_data() catches the exception,
\* shows it with st.error and returns []
BackupLoadData ==
    /\ call' = [op |-> "load_data", module |-> "test_streamlit_backup"]
    /\ raised' = "none"
    /\ ret' = IF validator_validate_relationships_raises(data)
              THEN <<>> ELSE validator_validate_relationships(data)
    /\ summary' = IF validator_validate_relationships_raises(data)
                  THEN ("Failed to load data" :>
                           validator_validate_relationships_raised(data, embeddings))
                  ELSE NoSummary
    /\ UNCHANGED <<prog, data, embeddings, retf, prev, rankerCalls,
                   argsAfter, disk, providerCalls, report>>

\* test_streamlit.py: prepare_report_data(results)
PrepareReportData ==
    /\ call' = [op |-> "prepare_report_data"]
    /\ raised' = "none"
    /\ report' = prepare_report_data(ret)
    /\ UNCHANGED <<prog, data, embeddings, ret, retf, prev, rankerCalls,
                   argsAfter, disk, providerCalls, summary>>

\* test_streamlit_backup.py: prepare_data(results)
PrepareData ==
    /\ call' = [op |-> "prepare_data"]
    /\ raised' = "none"
    /\ report' = prepare_data(ret)
    /\ UNCHANGED <<prog, data, embeddings, ret, retf, prev, rankerCalls,
                   argsAfter, disk, providerCalls, summary>>

\* test_streamlit.py line 115: display_metrics(old_df, new_df), on the frames
\* prepare_report_data returned
DisplayMetrics ==
    /\ call.op = "prepare_report_data"
    /\ call' = [op |-> "display_metrics"]
    /\ raised' = display_metrics_raised(report.current)
    /\ summary' = display_metrics(report.current, report.suggestions)
    /\ UNCHANGED <<prog, data, embeddings, ret, retf, prev, rankerCalls,
                   argsAfter, disk, providerCalls, report>>

\* test_streamlit_backup.py lines 109-166: display_current_relationships on
\* the frame prepare_data returned; it adds a column to that frame
DisplayCurrentRelationships ==
    /\ call.op \in {"prepare_data", "display_current_relationships",
                    "display_improvement_suggestions"}
    /\ \E validation_threshold \in Thresholds :
          /\ call' = [op |-> "display_current_relationships",
                      validation_threshold |-> validation_threshold]
          /\ raised' = display_current_relationships_raised(report.current)
          /\ IF display_current_relationships_raised(report.current) = "none"
             THEN /\ report' = [report EXCEPT !.current =
                                   DynamicValidation(report.current, validation_threshold)]
                  /\ summary' = display_current_relationships(report.current,
                                                              validation_threshold)
             ELSE report' = report /\ summary' = NoSummary
    /\ UNCHANGED <<prog, data, embeddings, ret, retf, prev, rankerCalls,
                   argsAfter, disk, providerCalls>>

\* test_streamlit_backup.py lines 168-182: display_improvement_suggestions on
\* the frame prepare_data returned, up to its metrics; the lines after them
\* filter copies and draw
DisplayImprovementSuggestions ==
    /\ call.op \in {"prepare_data", "display_current_relationships",
                    "display_improvement_suggestions"}
    /\ \E improvement_threshold \in Thresholds :
          /\ call' = [op |-> "display_improvement_suggestions",
                      improvement_threshold |-> improvement_threshold]
          /\ raised' = display_improvement_suggestions_raised(report.suggestions)
          /\ summary' =
                IF display_improvement_suggestions_raised(report.suggestions) = "none"
                THEN display_improvement_suggestions(report.suggestions,
                                                     improvement_threshold)
                ELSE NoSummary
    /\ UNCHANGED <<prog, data, embeddings, ret, retf, prev, rankerCalls,
                   argsAfter, disk, providerCalls, report>>

\* validator.py: generate_report(validation_results), on the results at hand
GenerateReport ==
    /\ call' = [op |-> "generate_report"]
    /\ raised' = generate_report_raised(ret)
    /\ summary' = IF generate_report_raised(ret) = "none"
                  THEN generate_report(ret) ELSE NoSummary
    /\ UNCHANGED <<prog, data, embeddings, ret, retf, prev, rankerCalls,
                   argsAfter, disk, providerCalls, report>>

\* validator.py lines 234-246 of __main__: validate, build the rows of the
\* sheet, compute the summary statistics; line 312 re-raises what was raised
SummaryStatistics ==
    /\ call' = [op |-> "__main__"]
    /\ ret' = IF validator_validate_relationships_raises(data)
              THEN <<>> ELSE validator_validate_relationships(data)
    /\ IF validator_validate_relationships_raises(data)
       THEN /\ raised' = validator_validate_relationships_raised(data, embeddings)
            /\ summary' = NoSummary
       ELSE \E df \in {generate_excel_report(validator_validate_relationships(data))} :
               /\ raised' = summary_statistics_raised(df)
               /\ summary' = IF summary_statistics_raised(df) = "none"
                             THEN summary_statistics(df) ELSE NoSummary
    /\ UNCHANGED <<prog, data, embeddings, retf, prev, rankerCalls,
                   argsAfter, disk, providerCalls, report>>

NextReport ==
    \/ StreamlitLoadData
    \/ BackupLoadData
    \/ PrepareReportData
    \/ PrepareData
    \/ DisplayMetrics
    \/ DisplayCurrentRelationships
    \/ DisplayImprovementSuggestions
    \/ GenerateReport
    \/ SummaryStatistics

SpecReport == InitReport /\ [][NextReport]_vars

----------------------------------------------------------------------------
(* Properties *)

\* a validate_relationships invocation, and one whose arguments bound to the
\* parameters, so that the body ran
IsValidateInvocation == call.op = "validate_relationships"
IsValidateCall == IsValidateInvocation /\ call.bound
IsRankCall == call.op = "find_top_matches"
IsScoreCall == call.op = "calculate_similarity"
Returned == raised = "none"

\* parent_name is present and non-empty
NamedParent(item) == "parent_name" \in DOMAIN item /\ item.parent_name # ""

\* the root keys of the records that have a parent, in record order
ParentBearingKeys ==
    LET bearing == SelectSeq(data, NamedParent)
    IN [k \in 1..Len(bearing) |-> bearing[k].root_key]

ResultKeys == [k \in 1..Len(ret) |-> ret[k].root_key]

\* C1: every validate_relationships call, of either validator variant,
\* returns one result for each record whose parent_name is present and
\* non-empty, none for any other record, in record order.
C1_OneResultPerParentRecord ==
    IsValidateCall => (Returned /\ ResultKeys = ParentBearingKeys)

\* C1 restricted to the validator_backup.py variant
C1_BackupOneResultPerParentRecord ==
    (prog = "validator_backup" /\ IsValidateCall)
        => (Returned /\ ResultKeys = ParentBearingKeys)

C1_BackupWitness ==
    /\ prog = "validator_backup" /\ IsValidateCall /\ Returned
    /\ Len(ret) >= 2 /\ Len(ret) < Len(data)
    /\ \E i \in 1..Len(data) : "parent_name" \notin DOMAIN data[i]
    /\ \E i \in 1..Len(data) : "parent_name" \in DOMAIN data[i] /\ data[i].parent_name = ""

\* the indices j # i of the records that have a parent (0-based)
OtherParentBearing(i) ==
    {j \in 0..(Len(data) - 1) : j # i /\ NamedParent(data[j + 1])}

\* C2: the candidate pool handed to find_top_matches for record i is exactly
\* the indices j # i whose record has a non-empty parent_name, each paired
\* with embeddings.parent[j]; i itself and records without a parent are
\* never candidates.
C2_CandidatePool ==
    (IsValidateCall /\ Returned) =>
        /\ Len(rankerCalls) = Len(ret)
        /\ \A k \in 1..Len(rankerCalls) :
              LET c == rankerCalls[k]
              IN /\ ret[k].root_key = data[c.idx + 1].root_key
                 /\ c.target_embedding = embeddings.root[c.idx + 1]
                 /\ {c.indices[m] : m \in 1..Len(c.indices)} = OtherParentBearing(c.idx)
                 /\ Len(c.indices) = Cardinality(OtherParentBearing(c.idx))
                 /\ Len(c.candidate_embeddings) = Len(c.indices)
                 /\ Len(c.candidate_data) = Len(c.indices)
                 /\ \A m \in 1..Len(c.indices) :
                       /\ c.candidate_embeddings[m] = embeddings.parent[c.indices[m] + 1]
                       /\ c.candidate_data[m] = data[c.indices[m] + 1]

C2_Witness ==
    /\ prog = "validator_backup" /\ IsValidateCall /\ Returned
    /\ \E k \in 1..Len(rankerCalls) : Len(rankerCalls[k].indices) >= 2
    /\ \E i \in 1..Len(data) : ~NamedParent(data[i])

\* C3: a result is VALID exactly when its current score is >= the validity
\* threshold (equality included) and INVALID otherwise; validation_status is
\* PASS exactly when it is VALID and FAIL otherwise.
C3_Verdict ==
    (IsValidateCall /\ Returned) =>
        \A k \in 1..Len(ret) :
            /\ ret[k].validation \in {"VALID", "INVALID"}
            /\ ret[k].validation_status \in {"PASS", "FAIL"}
            /\ (ret[k].validation = "VALID")
                  <=> Geq(ret[k].current_parent.similarity_score,
                          Hundredths(call.similarity_threshold))
            /\ (ret[k].validation_status = "PASS") <=> (ret[k].validation = "VALID")

C3_Witness ==
    /\ IsValidateCall /\ Returned
    /\ \E k \in 1..Len(ret) :
          /\ ret[k].current_parent.similarity_score = Hundredths(call.similarity_threshold)
          /\ ret[k].validation = "VALID" /\ ret[k].validation_status = "PASS"
    /\ \E k \in 1..Len(ret) :
          /\ Lt(ret[k].current_parent.similarity_score,
                Hundredths(call.similarity_threshold))
          /\ ret[k].validation = "INVALID" /\ ret[k].validation_status = "FAIL"

\* every suggestion of every result clears the threshold, at most
\* DEFAULT_TOP_N of them per result
SuggestionsBounded ==
    (IsValidateCall /\ Returned) =>
        \A k \in 1..Len(ret) :
            /\ Len(ret[k].suggested_parents) <= DEFAULT_TOP_N
            /\ \A m \in 1..Len(ret[k].suggested_parents) :
                  Geq(ret[k].suggested_parents[m].similarity_score,
                      Hundredths(call.similarity_threshold))

RankedAboveThreshold ==
    (IsRankCall /\ Returned) =>
        \A k \in 1..Len(ret) : Geq(ret[k][1], Hundredths(call.threshold))

\* C4 as stated: for every integer top_n find_top_matches returns at most top_n
\* entries, each with score >= threshold, and so do the suggested_parents.
C4_AtMostTopN_AnyInteger ==
    /\ (IsRankCall /\ Returned) => Len(ret) <= call.top_n
    /\ RankedAboveThreshold
    /\ SuggestionsBounded

\* C4 amended: for top_n >= 0 find_top_matches returns at most top_n entries;
\* for top_n < 0 it drops the last -top_n retained entries, so it returns at
\* most max(0, len(candidates) + top_n); every returned score is >= threshold,
\* and suggested_parents has at most 3 entries, each >= the threshold.
C4_AtMostTopN ==
    /\ (IsRankCall /\ Returned) =>
          /\ call.top_n >= 0 => Len(ret) <= call.top_n
          /\ call.top_n < 0 =>
                Len(ret) <= Max(0, Len(call.candidate_embeddings) + call.top_n)
    /\ RankedAboveThreshold
    /\ SuggestionsBounded

\* a direct call that truncates: three candidates clear the threshold, two are
\* returned
C4_Witness ==
    /\ IsRankCall /\ Returned
    /\ call.top_n = 2 /\ Len(ret) = 2
    /\ Len(call.candidate_embeddings) = 3
    /\ call.target_embedding = <<3, 4>>
    /\ call.threshold = 60
    /\ \A k \in 1..3 : call.candidate_embeddings[k] \in {<<1, 0>>, <<3, 4>>}

\* a validation that truncates: a record with more than three candidates
\* above the threshold gets three suggestions
C4_ValidationTruncates ==
    /\ prog = "validator_backup" /\ IsValidateCall /\ Returned
    /\ \E k \in 1..Len(ret) :
          /\ Len(rankerCalls[k].indices) > DEFAULT_TOP_N
          /\ \A m \in 1..Len(rankerCalls[k].indices) :
                rankerCalls[k].candidate_embeddings[m] # None
          /\ call.similarity_threshold = 0
          /\ Len(ret[k].suggested_parents) = DEFAULT_TOP_N

\* C5: find_top_matches returns its entries sorted by score, non-increasing,
\* and entries of equal score in the order of the candidate sequence.
C5_SortedStable ==
    (IsRankCall /\ Returned) =>
        /\ \A i, j \in 1..Len(ret) :
              i < j => /\ Geq(ret[i][1], ret[j][1])
                       /\ ret[i][1] = ret[j][1] => ret[i][2] < ret[j][2]
        /\ \A i \in 1..Len(ret) : ret[i][3] = call.candidate_data[ret[i][2] + 1]

\* a tie kept in candidate order behind an entry the sort moved to the front
C5_Witness ==
    /\ IsRankCall /\ Returned
    /\ Len(ret) = 3
    /\ Gt(ret[1][1], ret[2][1]) /\ ret[2][1] = ret[3][1]
    /\ ret[1][2] = 1 /\ ret[2][2] = 0 /\ ret[3][2] = 2

\* C6: a second validate_relationships call on the same validator with the
\* same threshold returns what the first returned.
C6_Idempotent ==
    (IsValidateCall /\ prev.call = call) => (ret = prev.ret /\ raised = prev.raised)

C6_Witness ==
    /\ prog = "validator_backup" /\ IsValidateCall /\ Returned
    /\ prev.call = call
    /\ Len(ret) >= 2
    /\ \E k \in 1..Len(ret) : Len(ret[k].suggested_parents) >= 1

\* C7: calculate_similarity returns 0.0 and raises nothing when either
\* argument is None, whatever the other is.
C7_NoneIsZero ==
    (IsScoreCall /\ (call.embedding1 = None \/ call.embedding2 = None))
        => (Returned /\ retf = Hundredths(0))

C7_Witness ==
    /\ IsScoreCall /\ Returned
    /\ call.embedding1 = Malformed /\ call.embedding2 = None
    /\ retf = Hundredths(0)

IsZeroVector(v) == v # None /\ \A k \in 1..Len(v) : v[k] = 0

\* the tolerance of a comparison of floats: 1e-9
Tolerance == Over(Float(1), Float(1000000000))

\* |x - y| <= 1e-9
IsClose(x, y) ==
    LET d == Minus(x, y)
    IN  Leq(IF d.sign < 0 THEN Negative(d) ELSE d, Tolerance)

\* -1.0 <= score <= 1.0
InRange ==
    (IsScoreCall /\ Returned) =>
        (Geq(retf, Hundredths(0 - 100)) /\ Leq(retf, Hundredths(100)))

\* -1.0 - 1e-9 <= score <= 1.0 + 1e-9
InRangeWithinTolerance ==
    (IsScoreCall /\ Returned) =>
        /\ Geq(retf, Minus(Hundredths(0 - 100), Tolerance))
        /\ Leq(retf, Plus(Hundredths(100), Tolerance))

C8_ZeroWitness ==
    /\ IsScoreCall /\ Returned
    /\ call.embedding1 = <<0, 0>> /\ call.embedding2 = <<0, 0>>
    /\ retf = Hundredths(0)

\* a vector of norm 13 against itself: the float above 1.0,
\* 1.0000000000000002
C8_AboveOneWitness ==
    /\ IsScoreCall /\ Returned
    /\ call.embedding1 = <<5, 12>> /\ call.embedding2 = <<5, 12>>
    /\ Gt(retf, Hundredths(100))
    /\ IsClose(retf, Hundredths(100))

\* a vector of norm 5 against itself: 1.0
C8_ExactWitness ==
    /\ IsScoreCall /\ Returned
    /\ call.embedding1 = <<3, 4>> /\ call.embedding2 = <<3, 4>>
    /\ retf = Hundredths(100)

\* scores that are no multiples of 1/100: near 220/221, and near -sqrt(2)/2
C8_FractionWitness ==
    /\ IsScoreCall /\ Returned
    /\ call.embedding1 = <<5, 12>> /\ call.embedding2 = <<8, 15>>
    /\ IsClose(retf, Over(Float(220), Float(221)))
    /\ Lt(retf, Hundredths(100)) /\ Gt(retf, Hundredths(99))

C8_IrrationalWitness ==
    /\ IsScoreCall /\ Returned
    /\ call.embedding1 = <<-1, -1>> /\ call.embedding2 = <<1, 0>>
    /\ IsClose(retf, Negative(Over(Float(1), Sqrt(2))))
    /\ Lt(retf, Hundredths(0 - 70)) /\ Gt(retf, Hundredths(0 - 71))

MissingEmbedding(i) == embeddings.root[i] = None \/ embeddings.parent[i] = None

\* C9 as stated: a parent-bearing record with a missing root or parent
\* embedding gets a result with score 0.0 and verdict INVALID / FAIL, for
\* every validity threshold; the run does not abort.
C9_MissingIsInvalid_AnyThreshold ==
    (prog = "validator_backup" /\ IsValidateCall) =>
        /\ Returned
        /\ \A i \in 1..Len(data) :
              (NamedParent(data[i]) /\ MissingEmbedding(i)) =>
                  \E k \in 1..Len(ret) :
                      /\ ret[k].root_key = data[i].root_key
                      /\ ret[k].current_parent.similarity_score = Hundredths(0)
                      /\ ret[k].validation = "INVALID"
                      /\ ret[k].validation_status = "FAIL"

\* C9 amended: such a record gets a result with score 0.0 and the run does not
\* abort; the verdict is INVALID / FAIL for every validity threshold above
\* 0.0, and VALID / PASS for a threshold of 0.0 or less.
C9_MissingIsInvalid ==
    (prog = "validator_backup" /\ IsValidateCall) =>
        /\ Returned
        /\ \A i \in 1..Len(data) :
              (NamedParent(data[i]) /\ MissingEmbedding(i)) =>
                  \E k \in 1..Len(ret) :
                      /\ ret[k].root_key = data[i].root_key
                      /\ ret[k].current_parent.similarity_score = Hundredths(0)
                      /\ ret[k].validation =
                            IF call.similarity_threshold > 0 THEN "INVALID" ELSE "VALID"
                      /\ ret[k].validation_status =
                            IF call.similarity_threshold > 0 THEN "FAIL" ELSE "PASS"

C9_Witness ==
    /\ prog = "validator_backup" /\ IsValidateCall /\ Returned
    /\ call.similarity_threshold = 60
    /\ \E i, j \in 1..Len(data) :
          /\ NamedParent(data[i]) /\ embeddings.root[i] = None
          /\ NamedParent(data[j]) /\ embeddings.parent[j] = None
          /\ \E k, m \in 1..Len(ret) :
                /\ ret[k].root_key = data[i].root_key /\ ret[k].validation = "INVALID"
                /\ ret[m].root_key = data[j].root_key /\ ret[m].validation = "INVALID"

\* C10: a candidate whose parent embedding is missing is ranked with score
\* 0.0 like any other candidate; it is returned whenever 0.0 clears the
\* threshold and the pool is no larger than top_n.
C10_MissingCandidateRanked ==
    (prog = "validator_backup" /\ IsValidateCall /\ Returned) =>
        \A k \in 1..Len(rankerCalls) :
            LET c == rankerCalls[k]
            IN \A m \in 1..Len(c.candidate_embeddings) :
                  (/\ c.candidate_embeddings[m] = None
                   /\ 0 >= c.threshold
                   /\ Len(c.candidate_embeddings) <= c.top_n) =>
                      \E e \in 1..Len(c.returned) :
                          /\ c.returned[e][2] = m - 1
                          /\ c.returned[e][1] = Hundredths(0)

\* C10, what the code does: a parent-bearing record whose parent embedding
\* is missing stays in every other record's candidate pool, but
\* find_top_matches skips it unscored (line 78): it is never among the ranked
\* matches, whatever the threshold and top_n, and every result has one
\* suggestion per ranked match.
C10_MissingCandidateSkipped ==
    /\ (IsRankCall /\ Returned) =>
          \A e \in 1..Len(ret) : call.candidate_embeddings[ret[e][2] + 1] # None
    /\ (prog = "validator_backup" /\ IsValidateCall /\ Returned) =>
          \A k \in 1..Len(rankerCalls) :
              LET c == rankerCalls[k]
              IN /\ \A j \in OtherParentBearing(c.idx) :
                        \E m \in 1..Len(c.indices) : c.indices[m] = j
                 /\ \A e \in 1..Len(c.returned) :
                        c.candidate_embeddings[c.returned[e][2] + 1] # None
                 /\ Len(ret[k].suggested_parents) = Len(c.returned)

\* at threshold 0.0, a pool of at most top_n candidates, one of them without
\* an embedding: every other candidate is returned, that one is not
C10_Witness ==
    /\ prog = "validator_backup" /\ IsValidateCall /\ Returned
    /\ call.similarity_threshold = 0
    /\ \E k \in 1..Len(rankerCalls) :
          LET c == rankerCalls[k]
          IN /\ Len(c.indices) = 3 /\ Len(c.indices) <= c.top_n
             /\ c.target_embedding # None
             /\ c.candidate_embeddings[2] = None
             /\ c.candidate_embeddings[1] # None /\ c.candidate_embeddings[3] # None
             /\ Len(c.returned) = 2

\* the value the caller passed for a knob, or the documented default
Knob(name, default) ==
    IF name \in DOMAIN call.kwargs THEN call.kwargs[name] ELSE default

PassesTopNZero == "top_n" \in DOMAIN call.kwargs /\ call.kwargs["top_n"] = 0

\* C11: a validation invoked with top_n = 0 returns, and every result has an
\* empty suggested_parents sequence, whatever the scores and thresholds.
C11_TopNZeroNoSuggestions ==
    (IsValidateInvocation /\ PassesTopNZero) =>
        /\ Returned
        /\ Len(ret) = Len(ParentBearingKeys)
        /\ \A k \in 1..Len(ret) : ret[k].suggested_parents = <<>>

\* the ranker itself, called with top_n = 0, returns no entry
C11_RankerTopNZero ==
    (IsRankCall /\ Returned /\ call.top_n = 0) => ret = <<>>

C11_RankerWitness ==
    /\ IsRankCall /\ Returned /\ call.top_n = 0 /\ call.threshold = 0
    /\ Len(call.candidate_embeddings) = 2
    /\ \A k \in 1..2 : call.candidate_embeddings[k] \notin {None, Malformed}
    /\ call.target_embedding # None
    /\ ret = <<>>

IsConstruction == call.op = "__init__"

\* C12: constructing a validator over a data file whose top-level value is
\* not an array fails with ValueError: no validator is produced, and no
\* embedding table is loaded, generated or saved.
C12_NotAListIsFatal ==
    (IsConstruction /\ call.file.type # "list") =>
        /\ raised = "ValueError"
        /\ providerCalls = <<>>
        /\ disk.embeddings = call.cache
        /\ data = <<>> /\ embeddings = EmptyTable

\* a JSON object in place of the array, with a cached table on the path that
\* the failed construction did not load
C12_Witness ==
    /\ IsConstruction /\ call.file.type = "dict"
    /\ raised = "ValueError"
    /\ call.cache.exists /\ Len(call.cache.table.root) = 2
    /\ providerCalls = <<>>

\* the cached table the construction found has another length than the data
CacheMismatch ==
    /\ call.file.type = "list" /\ call.cache.exists
    /\ \/ Len(call.cache.table.root) # Len(call.file.value)
       \/ Len(call.cache.table.parent) # Len(call.file.value)

\* C13: whatever constructions and dataset changes came before, a cached
\* table whose root or parent length differs from the record count is
\* rejected with an error, so every validator that was constructed has
\* len(embeddings.root) = len(embeddings.parent) = len(data).
C13_TableMatchesRecords ==
    IsConstruction =>
        /\ CacheMismatch => raised # "none"
        /\ Returned => /\ Len(embeddings.root) = Len(data)
                       /\ Len(embeddings.parent) = Len(data)

\* a table the construction generated itself has one row per record
C13_GeneratedTableMatches ==
    (IsConstruction /\ Returned /\ ~call.cache.exists) =>
        /\ Len(embeddings.root) = Len(data)
        /\ Len(embeddings.parent) = Len(data)

C13_GeneratedWitness ==
    /\ IsConstruction /\ Returned /\ ~call.cache.exists
    /\ Len(data) = 2 /\ Len(embeddings.root) = 2 /\ embeddings.root[1] # embeddings.root[2]

IsMalformed(v) == v # None /\ Len(v) # 2

\* C14: a candidate whose similarity computation fails is left out of the
\* ranking and nothing else changes: find_top_matches returns the ranking of
\* the other candidates, and validate_relationships returns one result for
\* every parent-bearing record.
C14_FailureIsLocal ==
    /\ (IsRankCall /\ call.target_embedding # None) =>
          /\ Returned
          /\ \A e \in 1..Len(ret) : ~IsMalformed(call.candidate_embeddings[ret[e][2] + 1])
          /\ \A k \in 1..Len(call.candidate_embeddings) :
                LET v == call.candidate_embeddings[k]
                IN (/\ v # None /\ ~IsMalformed(v)
                    /\ Geq(cosine_similarity(call.target_embedding, v),
                           Hundredths(call.threshold))
                    /\ Len(call.candidate_embeddings) <= call.top_n)
                       => \E e \in 1..Len(ret) : ret[e][2] = k - 1
    /\ (prog = "validator_backup" /\ IsValidateCall) =>
          (Returned /\ ResultKeys = ParentBearingKeys)

\* tables and candidate lists without a malformed vector raise nothing
C14_WellFormedReturns ==
    /\ (IsRankCall /\ \A k \in 1..Len(call.candidate_embeddings) :
                          ~IsMalformed(call.candidate_embeddings[k])) => Returned
    /\ (prog = "validator_backup" /\ IsValidateCall
          /\ \A i \in 1..Len(data) : ~IsMalformed(embeddings.parent[i])) => Returned

\* a malformed candidate aborts the ranking, a malformed vector in the table
\* the validation
C14_RankerAborts ==
    /\ IsRankCall /\ raised = "ValueError"
    /\ Len(call.candidate_embeddings) = 3
    /\ IsMalformed(call.candidate_embeddings[2])
    /\ call.candidate_embeddings[1] = call.target_embedding
    /\ call.target_embedding = <<3, 4>>

C14_ValidationAborts ==
    /\ prog = "validator_backup" /\ IsValidateCall /\ raised = "ValueError"
    /\ Len(data) = 3
    /\ IsMalformed(embeddings.parent[3]) /\ ~IsMalformed(embeddings.parent[1])

Generates == \E k \in 1..Len(providerCalls) : providerCalls[k] = "generate_embeddings"

\* the table generate_embeddings yields for the records of the data file
GeneratedTable ==
    [root |-> generate_embeddings(root_descriptions(call.file.value)),
     parent |-> generate_embeddings(parent_summaries(call.file.value))]

GenerateOnlyWithoutCache ==
    /\ Generates => ~call.cache.exists
    /\ call.cache.exists =>
          /\ raised = "none"
          /\ providerCalls = <<"load_embeddings">>
          /\ embeddings = call.cache.table
          /\ disk.embeddings = call.cache

GeneratedIsSaved ==
    Generates =>
        /\ raised = "none"
        /\ providerCalls = <<"load_embeddings", "generate_embeddings",
                             "generate_embeddings", "save_embeddings">>
        /\ embeddings = GeneratedTable
        /\ disk.embeddings = [exists |-> TRUE, table |-> GeneratedTable]

\* C15: a construction calls generate_embeddings only when load_embeddings
\* found no cached table at the embeddings path; when it calls it, the
\* generated table is saved to that path, and a construction that finds
\* the saved table loads it and generates nothing.
C15_GenerateOnlyWithoutCache ==
    (IsConstruction /\ call.file.type = "list") =>
        (GenerateOnlyWithoutCache /\ GeneratedIsSaved)

\* C15 for an embeddings path that has a directory part, and its first half
\* for every path
C15_WithDirectory ==
    (IsConstruction /\ call.file.type = "list") =>
        /\ GenerateOnlyWithoutCache
        /\ disk.path = "embeddings/embeddings.pkl" => GeneratedIsSaved

\* a construction that loaded the table an earlier one generated and saved,
\* over a data file that has changed since
C15_LoadsSavedTable ==
    /\ IsConstruction /\ Returned
    /\ call.cache.exists /\ providerCalls = <<"load_embeddings">>
    /\ Len(embeddings.root) = 2 /\ Len(data) = 1

\* a path without a directory part: the table is generated and not saved
C15_NotSaved ==
    /\ IsConstruction /\ Generates
    /\ raised = "FileNotFoundError" /\ ~disk.embeddings.exists
    /\ disk.path = "embeddings.pkl"

\* C16: validate_relationships takes a validity threshold, a suggestion
\* threshold and a number of suggestions, each of which the caller can pass
\* and which default to 0.65, 0.65 and 3; the ranker is called with the
\* suggestion threshold and the number of suggestions of the invocation.
C16_ThreeKnobs ==
    (prog = "validator_backup" /\ IsValidateInvocation) =>
        /\ raised # "TypeError"
        /\ call.similarity_threshold = Knob("similarity_threshold", SIMILARITY_THRESHOLD)
        /\ Returned =>
              \A k \in 1..Len(rankerCalls) :
                  /\ rankerCalls[k].threshold = Knob("suggestion_threshold", SIMILARITY_THRESHOLD)
                  /\ rankerCalls[k].top_n = Knob("top_n", DEFAULT_TOP_N)

\* what the code has: one knob, the validity threshold, 0.6 when not passed,
\* which is the suggestion threshold too; three suggestions at most
C16_OneKnob ==
    (prog = "validator_backup" /\ IsValidateInvocation) =>
        /\ Returned <=> DOMAIN call.kwargs \subseteq {"similarity_threshold"}
        /\ call.similarity_threshold =
              Knob("similarity_threshold", DEFAULT_SIMILARITY_THRESHOLD)
        /\ \A k \in 1..Len(rankerCalls) :
              /\ rankerCalls[k].threshold = call.similarity_threshold
              /\ rankerCalls[k].top_n = DEFAULT_TOP_N

C16_DefaultCall ==
    /\ prog = "validator_backup" /\ IsValidateCall /\ Returned
    /\ DOMAIN call.kwargs = {}
    /\ call.similarity_threshold = 60
    /\ \E k \in 1..Len(ret) : ret[k].current_parent.similarity_score = Hundredths(60)
                               /\ ret[k].validation = "VALID"
    /\ Len(rankerCalls) >= 2

C16_KnobRejected ==
    /\ prog = "validator_backup" /\ IsValidateInvocation
    /\ "suggestion_threshold" \in DOMAIN call.kwargs
    /\ call.kwargs["suggestion_threshold"] # call.kwargs["similarity_threshold"]
    /\ raised = "TypeError"
    /\ Len(ParentBearingKeys) >= 2

\* the record result k was built for, and the candidate its suggestion m was
\* built from
ResultRecord(k) == data[rankerCalls[k].idx + 1]
SuggestionRecord(k, m) ==
    rankerCalls[k].candidate_data[rankerCalls[k].returned[m][2] + 1]

\* C17: for a record that carries the field parent_key, the result's
\* current_parent.parent_key is that value, and a suggestion built from such
\* a record carries its parent_key value.
C17_ParentKeyCarried ==
    (prog = "validator_backup" /\ IsValidateCall /\ Returned) =>
        \A k \in 1..Len(ret) :
            /\ "parent_key" \in DOMAIN ResultRecord(k) =>
                  ret[k].current_parent.parent_key = ResultRecord(k).parent_key
            /\ \A m \in 1..Len(ret[k].suggested_parents) :
                  "parent_key" \in DOMAIN SuggestionRecord(k, m) =>
                      ret[k].suggested_parents[m].parent_key
                          = SuggestionRecord(k, m).parent_key

\* what the code has: the key read is parnet_key, and a record without it
\* (one that names the field parent_key) gets None
C17_ParnetKeyCarried ==
    (prog = "validator_backup" /\ IsValidateCall /\ Returned) =>
        \A k \in 1..Len(ret) :
            /\ ret[k].current_parent.parent_key =
                  (IF "parnet_key" \in DOMAIN ResultRecord(k)
                   THEN ResultRecord(k).parnet_key ELSE NoneVal)
            /\ \A m \in 1..Len(ret[k].suggested_parents) :
                  ret[k].suggested_parents[m].parent_key =
                      (IF "parnet_key" \in DOMAIN SuggestionRecord(k, m)
                       THEN SuggestionRecord(k, m).parnet_key ELSE NoneVal)

C17_ParentKeyLost ==
    /\ prog = "validator_backup" /\ IsValidateCall /\ Returned
    /\ \E k \in 1..Len(ret) :
          /\ "parent_key" \in DOMAIN ResultRecord(k)
          /\ ret[k].current_parent.parent_key = NoneVal
          /\ \E m \in 1..Len(ret[k].suggested_parents) :
                ret[k].suggested_parents[m].parent_key = "kP"
    /\ \E k \in 1..Len(ret) : \E m \in 1..Len(ret[k].suggested_parents) :
          /\ "parent_key" \in DOMAIN SuggestionRecord(k, m)
          /\ ret[k].suggested_parents[m].parent_key = NoneVal

\* C18: find_top_matches leaves candidate_embeddings and candidate_data as
\* they were passed, same elements in the same order, and a
\* validate_relationships call leaves self.data and self.embeddings as they
\* were.
C18_Frame ==
    [][/\ call'.op = "find_top_matches" =>
             /\ argsAfter'.candidate_embeddings = call'.candidate_embeddings
             /\ argsAfter'.candidate_data = call'.candidate_data
       /\ call'.op = "validate_relationships" =>
             /\ data' = data
             /\ embeddings' = embeddings]_vars

\* a ranking that reordered its entries and left the caller's lists alone
C18_Witness ==
    /\ IsRankCall /\ Returned
    /\ Len(ret) = 3 /\ ret[1][2] = 2
    /\ argsAfter.candidate_data = call.candidate_data
    /\ Len(argsAfter.candidate_embeddings) = 3

IsReport == call.op \in {"prepare_report_data", "prepare_data"}

\* the score column of a suggestion row
NewScore(row) == IF "New Score" \in DOMAIN row THEN row["New Score"]
                 ELSE row["Similarity Score"]

RECURSIVE SuggestionCount(_)
SuggestionCount(n) ==
    IF n = 0 THEN 0 ELSE SuggestionCount(n - 1) + Len(ret[n].suggested_parents)

\* the results a row can stem from: same root key, and a suggestion with the
\* row's parent name and score
RowSources(row) ==
    {k \in 1..Len(ret) :
        /\ ret[k].root_key = row["Root Key"]
        /\ \E m \in 1..Len(ret[k].suggested_parents) :
              /\ ret[k].suggested_parents[m].parent_name = row["Suggested Parent"]
              /\ ret[k].suggested_parents[m].similarity_score = NewScore(row)}

\* the sign of a float
IsPositive(x) == x.sign > 0

IsNegative(x) == x.sign < 0

\* C19 as stated: every suggestion row derived from a result, of
\* prepare_report_data and of prepare_data alike, has as its Improvement the
\* suggestion's score minus the score of the current parent of the same
\* result, and is labelled IMPROVED when the suggestion's score is strictly
\* greater than the current score and NOT IMPROVED otherwise.
C19_EveryRowLabelled ==
    IsReport =>
        \A r \in 1..Len(report.suggestions) :
            LET row == report.suggestions[r]
            IN \A k \in RowSources(row) :
                  LET current == ret[k].current_parent.similarity_score
                  IN /\ row["Improvement"] = Minus(NewScore(row), current)
                     /\ "Status" \in DOMAIN row
                     /\ row["Status"] = IF Gt(NewScore(row), current)
                                        THEN "IMPROVED" ELSE "NOT IMPROVED"

\* C19 amended: there is one suggestion row per suggestion of every result;
\* its Improvement is the suggestion's score minus the score of the current
\* parent of the same result.  A row of prepare_data is labelled IMPROVED
\* exactly when the suggestion's score is strictly greater than the current
\* score (Improvement > 0) and NOT IMPROVED otherwise, equality included; a
\* row of prepare_report_data carries no label.
C19_Improvement ==
    IsReport =>
        /\ Len(report.suggestions) = SuggestionCount(Len(ret))
        /\ \A r \in 1..Len(report.suggestions) :
              LET row == report.suggestions[r]
              IN /\ RowSources(row) # {}
                 /\ \A k \in RowSources(row) :
                       LET current == ret[k].current_parent.similarity_score
                       IN /\ row["Improvement"] = Minus(NewScore(row), current)
                          /\ call.op = "prepare_report_data" =>
                                "Status" \notin DOMAIN row
                          /\ call.op = "prepare_data" =>
                                /\ row["Status"] \in {"IMPROVED", "NOT IMPROVED"}
                                /\ row["Status"] = "IMPROVED" <=> Gt(NewScore(row), current)
                                /\ row["Status"] = "IMPROVED" <=> IsPositive(row["Improvement"])
                                /\ row["Status"] = "NOT IMPROVED" <=>
                                      (row["Improvement"] = Zero \/ IsNegative(row["Improvement"]))

\* rows of prepare_data with a better, an equal and a worse suggestion
C19_Witness ==
    /\ call.op = "prepare_data"
    /\ \E r \in 1..Len(report.suggestions) :
          /\ IsPositive(report.suggestions[r]["Improvement"])
          /\ report.suggestions[r]["Status"] = "IMPROVED"
    /\ \E r \in 1..Len(report.suggestions) :
          /\ report.suggestions[r]["Improvement"] = Zero
          /\ report.suggestions[r]["New Score"] # Hundredths(0)
          /\ report.suggestions[r]["Status"] = "NOT IMPROVED"
    /\ \E r \in 1..Len(report.suggestions) :
          /\ IsNegative(report.suggestions[r]["Improvement"])
          /\ report.suggestions[r]["Status"] = "NOT IMPROVED"

\* rows of prepare_report_data, which carry the Improvement and no label
C19_ReportDataWitness ==
    /\ call.op = "prepare_report_data"
    /\ \E r \in 1..Len(report.suggestions) :
          IsPositive(report.suggestions[r]["Improvement"])
    /\ \E r \in 1..Len(report.suggestions) :
          IsNegative(report.suggestions[r]["Improvement"])
    /\ \A r \in 1..Len(report.suggestions) : "Status" \notin DOMAIN report.suggestions[r]

\* C20: validate_relationships of validator.py returns a result list, and
\* raises nothing, for every dataset with aligned embeddings in which some
\* record has a non-empty parent_name.
C20_ValidatorCompletes ==
    (prog = "validator" /\ IsValidateCall /\ Len(ParentBearingKeys) >= 1) =>
        (Returned /\ Len(ret) >= 1)

\* what validator.py does: it returns, an empty list, exactly when no record
\* has a parent; otherwise the lookup of find_best_matches raises
C20_ReturnsOnlyWithoutParents ==
    (prog = "validator" /\ IsValidateCall) =>
        /\ Returned <=> Len(ParentBearingKeys) = 0
        /\ ~Returned => raised = "AttributeError"
        /\ ret = <<>>

C20_AttributeError ==
    /\ prog = "validator" /\ IsValidateCall
    /\ raised = "AttributeError"
    /\ Len(data) = 1 /\ Len(ParentBearingKeys) = 1
    /\ embeddings.root[1] # None /\ embeddings.parent[1] # None

C20_NoParentWitness ==
    /\ prog = "validator" /\ IsValidateCall /\ Returned
    /\ Len(data) >= 2 /\ Len(ParentBearingKeys) = 0

\* the 0-based index in the dataset of the record suggestion m of result k
\* was ranked as: the returned index counts positions of the candidate list
SuggestedIndex(k, m) ==
    rankerCalls[k].indices[rankerCalls[k].returned[m][2] + 1]

\* C21: every suggestion of the result for record i is built from the
\* candidate record j whose parent embedding gave its score: its
\* similarity_score is the similarity of root[i] and parent[j], and its
\* parent name and key are those read from record j, also when candidates
\* without an embedding or below the threshold came before j.
C21_SuggestionFromItsCandidate ==
    (prog = "validator_backup" /\ IsValidateCall /\ Returned) =>
        \A k \in 1..Len(ret) :
            /\ Len(ret[k].suggested_parents) = Len(rankerCalls[k].returned)
            /\ \A m \in 1..Len(ret[k].suggested_parents) :
                  LET i == rankerCalls[k].idx
                      j == SuggestedIndex(k, m)
                      suggestion == ret[k].suggested_parents[m]
                  IN /\ j # i
                     /\ embeddings.parent[j + 1] # None
                     /\ suggestion.similarity_score =
                           calculate_similarity(embeddings.root[i + 1],
                                                embeddings.parent[j + 1])
                     /\ suggestion.parent_name = data[j + 1].parent_name
                     /\ suggestion.parent_key = Get(data[j + 1], "parnet_key")

\* a suggestion whose candidate stands behind one without an embedding and
\* behind one below the threshold, and whose rank is not its position
C21_Witness ==
    /\ prog = "validator_backup" /\ IsValidateCall /\ Returned
    /\ call.similarity_threshold = 60
    /\ \E k \in 1..Len(ret) :
          LET c == rankerCalls[k]
          IN /\ Len(c.candidate_embeddings) = 3
             /\ c.candidate_embeddings[1] = None
             /\ c.candidate_embeddings[2] # None
             /\ Lt(cosine_similarity(c.target_embedding, c.candidate_embeddings[2]),
                   Hundredths(60))
             /\ Len(ret[k].suggested_parents) = 1
             /\ c.returned[1][2] = 2
             /\ ret[k].suggested_parents[1].parent_name = c.candidate_data[3].parent_name
             /\ ret[k].suggested_parents[1].parent_name # c.candidate_data[1].parent_name

SameParent(suggestion, current_parent) ==
    /\ suggestion.parent_name = current_parent.parent_name
    /\ suggestion.parent_key = current_parent.parent_key

\* C22 as stated: no suggestion of a result has the parent name and key of
\* that result's current_parent, also when several records declare the same
\* parent.
C22_NoSuggestionIsCurrentParent ==
    (prog = "validator_backup" /\ IsValidateCall /\ Returned) =>
        \A k \in 1..Len(ret) :
            \A m \in 1..Len(ret[k].suggested_parents) :
                ~SameParent(ret[k].suggested_parents[m], ret[k].current_parent)

\* record j declares the parent record i declares: same name, same key
DeclaresSameParent(i, j) ==
    /\ Get(data[j + 1], "parent_name") = Get(data[i + 1], "parent_name")
    /\ Get(data[j + 1], "parnet_key") = Get(data[i + 1], "parnet_key")

\* C22 amended: there is one suggestion for each match find_top_matches
\* returned for record i, and it stems from another record j # i that has a
\* parent: it carries the parent name and key of record j and the similarity
\* of root i and parent j.  It is not compared with the current parent: it
\* has the parent name and key of current_parent exactly when record j
\* declares the parent name and key that record i declares.
C22_SuggestionFromAnotherRecord ==
    (prog = "validator_backup" /\ IsValidateCall /\ Returned) =>
        \A k \in 1..Len(ret) :
            /\ Len(ret[k].suggested_parents) = Len(rankerCalls[k].returned)
            /\ \A m \in 1..Len(ret[k].suggested_parents) :
                  LET i == rankerCalls[k].idx
                      j == SuggestedIndex(k, m)
                      suggestion == ret[k].suggested_parents[m]
                  IN /\ j \in OtherParentBearing(i)
                     /\ data[j + 1].parent_name = suggestion.parent_name
                     /\ Get(data[j + 1], "parnet_key") = suggestion.parent_key
                     /\ embeddings.parent[j + 1] # None
                     /\ calculate_similarity(embeddings.root[i + 1],
                                             embeddings.parent[j + 1])
                           = suggestion.similarity_score
                     /\ SameParent(suggestion, ret[k].current_parent)
                           <=> DeclaresSameParent(i, j)

\* two records declare the same parent, and each gets it as a suggestion
C22_Witness ==
    /\ prog = "validator_backup" /\ IsValidateCall /\ Returned
    /\ Len(data) = 2 /\ Len(ret) = 2
    /\ data[1].parent_name = data[2].parent_name
    /\ \A k \in 1..2 :
          /\ Len(ret[k].suggested_parents) = 1
          /\ SameParent(ret[k].suggested_parents[1], ret[k].current_parent)
          /\ ret[k].current_parent.parent_key = "kP"

\* the summary steps: generate_report, the statistics of __main__, display_metrics
IsSummary == call.op \in {"generate_report", "__main__", "display_metrics"}

\* the dataset in which every record lacks a parent
NoRecordHasParent == \A k \in 1..Len(data) : ~HasParent(data[k])

\* the total the summary step reported
ReportedTotal ==
    IF call.op = "generate_report" THEN summary.total
    ELSE summary["Total Relationships"]

\* C23: for a dataset in which every record lacks a parent the validation
\* returns an empty sequence and the summary step applied to it (generate_report,
\* the statistics of __main__, display_metrics) completes without an error,
\* reporting 0 total relationships.
C23_EmptyRunCompletes ==
    (IsSummary /\ NoRecordHasParent) =>
        /\ ret = <<>>
        /\ raised = "none"
        /\ ReportedTotal = 0

\* C23, what the code does: with no parent-bearing record the results are
\* empty and every summary step raises: generate_report divides by the total
\* of 0, __main__ and display_metrics look up a column the empty frame lacks,
\* display_metrics after it has shown a total of 0.
C23_EmptyRunRaises ==
    (IsSummary /\ NoRecordHasParent) =>
        /\ ret = <<>>
        /\ call.op = "generate_report" =>
              raised = "ZeroDivisionError" /\ summary = NoSummary
        /\ call.op = "__main__" => raised = "KeyError" /\ summary = NoSummary
        /\ call.op = "display_metrics" =>
              /\ raised = "KeyError"
              /\ DOMAIN summary = {"Total Relationships"}
              /\ summary["Total Relationships"] = 0

\* generate_report on the empty results of a dataset of records without parent
C23_GenerateReportWitness ==
    /\ call.op = "generate_report"
    /\ Len(data) > 0 /\ NoRecordHasParent
    /\ ret = <<>> /\ raised = "ZeroDivisionError"

\* the statistics of __main__ for a dataset of records without parent
C23_MainWitness ==
    /\ call.op = "__main__"
    /\ Len(data) > 0 /\ NoRecordHasParent
    /\ ret = <<>> /\ raised = "KeyError"

\* display_metrics on the empty frames of a dataset of records without parent
C23_DisplayMetricsWitness ==
    /\ call.op = "display_metrics"
    /\ Len(data) > 0 /\ NoRecordHasParent
    /\ ret = <<>> /\ raised = "KeyError"

\* C23, the other side: display_metrics completes exactly when there is at
\* least one result, and then reports as many relationships as there are
\* results; generate_report raises on every list of results at hand (they
\* carry no root_description, or there is none); __main__ never completes.
C23_SummaryOfResults ==
    IsSummary =>
        /\ call.op = "__main__" => raised # "none"
        /\ call.op = "generate_report" =>
              raised = (IF Len(ret) > 0 THEN "KeyError" ELSE "ZeroDivisionError")
        /\ call.op = "display_metrics" =>
              /\ raised = "none" <=> Len(ret) > 0
              /\ raised = "none" =>
                    /\ ReportedTotal = Len(ret)
                    /\ summary["Valid Relationships"][1] =
                          Cardinality({k \in 1..Len(ret) : ret[k].validation = "VALID"})

\* metrics of three results of which one is valid: 33.3%
C23_SummaryWitness ==
    /\ call.op = "display_metrics" /\ raised = "none"
    /\ summary["Total Relationships"] = 3
    /\ summary["Valid Relationships"] = <<1, 333>>

====
